---- MODULE Spec2Model ----
(***************************************************************************)
(* A model of the text-analysis orchestration layer of news_insight_app:   *)
(* the tokenizer cache (tokenizer_utils.py), the two sentiment services    *)
(* (sentiment_service.py, groq_service.py) and the two variants of the     *)
(* rhetoric / comparison operations (analysis_service.py, groq_service.py).*)
(*                                                                         *)
(* Strings are sequences of lexical tokens.  A Python call is modelled by  *)
(* an operator that returns a record [exc, ...]: exc = "none" when the     *)
(* call returns, otherwise the class of the exception it raises.           *)
(***************************************************************************)
EXTENDS Integers, Sequences, FiniteSets, TLC

VARIABLES
    tokenizers,   \* TokenizerProvider._tokenizers: model name -> instance (0: no key)
    built,        \* model name -> number of tokenizer instances constructed so far
    nextObj,      \* identity of the last object constructed
    tpc,          \* thread -> position inside get_tokenizer
    tmodel,       \* thread -> model_name argument of the call in progress
    tobj,         \* thread -> the instance the thread has just constructed
    tcalls,       \* thread -> number of calls started
    returned,     \* model name -> set of instances handed to callers
    call,         \* the arguments and backend outcome of the last service call
    ret,          \* what that call gave back: a result dict or an exception
    _provider,           \* tokenizer_utils._provider (0: None)
    _provider_lock,      \* the thread holding tokenizer_utils._provider_lock (0: free)
    _sentiment_service,  \* services._sentiment_service (0: None)
    _tokenizer,          \* services._tokenizer (0: None)
    gpc,          \* thread -> position inside a function that reads these globals
    gobj,         \* thread -> the instance the thread has just constructed
    gtext,        \* thread -> text argument of the analyze_sentiment call in progress
    gcalls,       \* thread -> number of such calls started
    made,         \* class name -> number of instances constructed so far
    got,          \* global name -> set of values handed to callers (0: None)
    GROQ_API_KEY, \* whether the environment holds the credential of the managed backend
    missed        \* whether some call has failed for want of the credential

globVars ==
    <<_provider, _provider_lock, _sentiment_service, _tokenizer, gpc, gobj, gtext, gcalls,
      made, got>>
envVars == <<GROQ_API_KEY, missed>>
vars ==
    <<tokenizers, built, nextObj, tpc, tmodel, tobj, tcalls, returned, call, ret, globVars,
      envVars>>
tokVars == <<tokenizers, built, nextObj, tpc, tmodel, tobj, tcalls, returned>>
callVars == <<call, ret>>

----------------------------------------------------------------------------
(* Bounds of the model *)

NumThreads == 2
MaxCalls == 2
MaxRawLen == 4
MaxRespLen == 3

Threads == 1..NumThreads
\* the classes of the lazily built process-wide instances, and the globals that
\* hold them
Classes == {"TokenizerProvider", "SentimentService", "Tokenizer"}
Globals == {"_provider", "_sentiment_service", "_tokenizer"}
Models == {"phi3.5:latest", "qwen2-7b", "mistralai/Mistral-7B-Instruct-v0.2"}

----------------------------------------------------------------------------
(* Generic string helpers: a string is a sequence of tokens; "sp" is a     *)
(* whitespace character.                                                   *)

SeqsUpTo(S, n) == UNION {[1..k -> S] : k \in 0..n}

RECURSIVE LStrip(_)
LStrip(s) == IF s # <<>> /\ Head(s) = "sp" THEN LStrip(Tail(s)) ELSE s

RECURSIVE RStrip(_)
RStrip(s) ==
    IF s # <<>> /\ s[Len(s)] = "sp" THEN RStrip(SubSeq(s, 1, Len(s) - 1)) ELSE s

\* str.strip()
Strip(s) == RStrip(LStrip(s))

----------------------------------------------------------------------------
(* tokenizer_utils.py: TokenizerProvider.get_tokenizer, one step per       *)
(* bytecode-level operation on the shared dict; threads interleave between *)
(* steps (the method takes no lock).                                       *)

NoCall == [op |-> "none"]
NoRet == [raised |-> FALSE, exc |-> "none", requests |-> 0]

InitTok ==
    /\ tokenizers = [m \in Models |-> 0]
    /\ built = [m \in Models |-> 0]
    /\ nextObj = 0
    /\ tpc = [t \in Threads |-> "idle"]
    /\ tmodel = [t \in Threads |-> "phi3.5:latest"]
    /\ tobj = [t \in Threads |-> 0]
    /\ tcalls = [t \in Threads |-> 0]
    /\ returned = [m \in Models |-> {}]
    /\ call = NoCall
    /\ ret = NoRet
    /\ _provider = 0
    /\ _provider_lock = 0
    /\ _sentiment_service = 0
    /\ _tokenizer = 0
    /\ gpc = [t \in Threads |-> <<"idle", "">>]
    /\ gobj = [t \in Threads |-> 0]
    /\ gtext = [t \in Threads |-> <<>>]
    /\ gcalls = [t \in Threads |-> 0]
    /\ made = [c \in Classes |-> 0]
    /\ got = [g \in Globals |-> {}]
    /\ GROQ_API_KEY = FALSE
    /\ missed = FALSE

\* a thread enters get_tokenizer(m) (directly or through count_tokens(text, m))
GetTokenizerCall(t, m) ==
    /\ tpc[t] = "idle"
    /\ tcalls[t] < MaxCalls
    /\ tpc' = [tpc EXCEPT ![t] = "check"]
    /\ tmodel' = [tmodel EXCEPT ![t] = m]
    /\ tcalls' = [tcalls EXCEPT ![t] = @ + 1]
    /\ UNCHANGED <<tokenizers, built, nextObj, tobj, returned, call, ret, globVars, envVars>>

\* line 37: if model_name not in self._tokenizers
GetTokenizerCheck(t) ==
    /\ tpc[t] = "check"
    /\ tpc' = [tpc EXCEPT ![t] = IF tokenizers[tmodel[t]] = 0 THEN "create" ELSE "return"]
    /\ UNCHANGED <<tokenizers, built, nextObj, tmodel, tobj, tcalls, returned, call, ret, globVars, envVars>>

\* line 38, right-hand side: create_fallback_tokenizer()
GetTokenizerCreate(t) ==
    /\ tpc[t] = "create"
    /\ nextObj' = nextObj + 1
    /\ tobj' = [tobj EXCEPT ![t] = nextObj + 1]
    /\ built' = [built EXCEPT ![tmodel[t]] = @ + 1]
    /\ tpc' = [tpc EXCEPT ![t] = "store"]
    /\ UNCHANGED <<tokenizers, tmodel, tcalls, returned, call, ret, globVars, envVars>>

\* line 38, assignment: self._tokenizers[model_name] = <the new instance>
GetTokenizerStore(t) ==
    /\ tpc[t] = "store"
    /\ tokenizers' = [tokenizers EXCEPT ![tmodel[t]] = tobj[t]]
    /\ tpc' = [tpc EXCEPT ![t] = "return"]
    /\ UNCHANGED <<built, nextObj, tmodel, tobj, tcalls, returned, call, ret, globVars, envVars>>

\* line 39: return self._tokenizers[model_name]
GetTokenizerReturn(t) ==
    /\ tpc[t] = "return"
    /\ returned' = [returned EXCEPT ![tmodel[t]] = @ \cup {tokenizers[tmodel[t]]}]
    /\ tpc' = [tpc EXCEPT ![t] = "idle"]
    /\ UNCHANGED <<tokenizers, built, nextObj, tmodel, tobj, tcalls, call, ret, globVars, envVars>>

NextTok ==
    \/ \E t \in Threads, m \in Models : GetTokenizerCall(t, m)
    \/ \E t \in Threads : GetTokenizerCheck(t)
    \/ \E t \in Threads : GetTokenizerCreate(t)
    \/ \E t \in Threads : GetTokenizerStore(t)
    \/ \E t \in Threads : GetTokenizerReturn(t)

SpecTokenizer == InitTok /\ [][NextTok]_vars

\* C1: for every model identifier, under every interleaving of threads calling
\* get_tokenizer (or count_tokens) on one provider, at most one tokenizer
\* instance is constructed and every caller receives that same instance.
C1_AtMostOneTokenizerPerModel ==
    \A m \in Models : built[m] <= 1 /\ Cardinality(returned[m]) <= 1

----------------------------------------------------------------------------
(* Backend responses.                                                      *)
(*                                                                         *)
(* An HTTP completion-server outcome is [net, body]: net says how          *)
(* requests.post / raise_for_status / response.json ended; body is the     *)
(* decoded JSON value.  A managed-chat (Groq SDK) outcome is               *)
(* [kind, choices, content, usage].                                        *)

Absent == [tag |-> "absent", s |-> <<>>, n |-> 0]
Null == [tag |-> "null", s |-> <<>>, n |-> 0]
Str(x) == [tag |-> "str", s |-> x, n |-> 0]
Num(k) == [tag |-> "int", s |-> <<>>, n |-> k]

\* a usage value: the key is absent, null, or an object whose total_tokens is `total`
UsageAbsent == [tag |-> "absent", total |-> Absent]
UsageNull == [tag |-> "null", total |-> Absent]
UsageObject(total) == [tag |-> "object", total |-> total]

\* an element of the choices array: a JSON object with a text member, or a bare string
ChoiceObject(text) == [tag |-> "object", text |-> text]
ChoiceString == [tag |-> "string", text |-> Absent]

\* the choices member: absent, null, a list of elements, or a non-empty object
ChoicesAbsent == [tag |-> "absent", elems |-> <<>>]
ChoicesNull == [tag |-> "null", elems |-> <<>>]
ChoicesDict == [tag |-> "dict", elems |-> <<>>]
ChoicesList(es) == [tag |-> "list", elems |-> es]

JsonObjectBody(choices, usage) == [kind |-> "object", choices |-> choices, usage |-> usage]
JsonListBody == [kind |-> "list", choices |-> ChoicesAbsent, usage |-> UsageAbsent]
\* body: Dict[str, Any] = {}
EmptyBody == JsonObjectBody(ChoicesAbsent, UsageAbsent)

HttpFailures == {"connect_error", "timeout", "http_error", "non_json"}

\* every outcome of one POST whose well-formed answers carry a text of S and a usage of U
HttpResponses(S, U) ==
    {[net |-> f, body |-> EmptyBody] : f \in HttpFailures}
    \cup {[net |-> "json", body |-> JsonListBody]}
    \cup {[net |-> "json", body |-> JsonObjectBody(c, u)] :
            c \in {ChoicesAbsent, ChoicesNull, ChoicesDict, ChoicesList(<<>>),
                   ChoicesList(<<ChoiceString>>), ChoicesList(<<ChoiceObject(Absent)>>),
                   ChoicesList(<<ChoiceObject(Null)>>)},
            u \in U}
    \cup {[net |-> "json", body |-> JsonObjectBody(ChoicesList(<<ChoiceObject(Str(t))>>), u)] :
            t \in S, u \in U}

\* requests.post(...); response.raise_for_status(); response.json()
\* (requests 2.31: a body that is not JSON raises requests.JSONDecodeError, which
\* is both a RequestException and a ValueError)
HttpPost(resp) ==
    CASE resp.net = "connect_error" -> [exc |-> "ConnectionError", body |-> EmptyBody]
      [] resp.net = "timeout" -> [exc |-> "Timeout", body |-> EmptyBody]
      [] resp.net = "http_error" -> [exc |-> "HTTPError", body |-> EmptyBody]
      [] resp.net = "non_json" -> [exc |-> "JSONDecodeError", body |-> EmptyBody]
      [] OTHER -> [exc |-> "none", body |-> resp.body]

IsRequestException(e) == e \in {"ConnectionError", "Timeout", "HTTPError", "JSONDecodeError"}
IsValueOrKeyError(e) == e \in {"JSONDecodeError", "ValueError", "KeyError"}

\* choices = body.get("choices") or []
\* raw_text = choices[0].get("text", "").strip() if choices else ""
FirstChoiceText(body) ==
    IF body.kind # "object" THEN [exc |-> "AttributeError", text |-> <<>>]
    ELSE LET c == body.choices IN
        CASE c.tag = "dict" -> [exc |-> "KeyError", text |-> <<>>]
          [] c.tag = "list" /\ c.elems # <<>> ->
                LET e == c.elems[1] IN
                IF e.tag # "object" THEN [exc |-> "AttributeError", text |-> <<>>]
                ELSE IF e.text.tag = "null" THEN [exc |-> "AttributeError", text |-> <<>>]
                ELSE IF e.text.tag = "absent" THEN [exc |-> "none", text |-> <<>>]
                ELSE [exc |-> "none", text |-> Strip(e.text.s)]
          [] OTHER -> [exc |-> "none", text |-> <<>>]

\* usage = body.get("usage", {}); usage.get("total_tokens", 0) or 0
UsageTotal(body) ==
    IF body.kind # "object" THEN [exc |-> "AttributeError", tokens |-> 0]
    ELSE LET u == body.usage IN
        CASE u.tag = "null" -> [exc |-> "AttributeError", tokens |-> 0]
          [] u.tag = "object" /\ u.total.tag = "int" -> [exc |-> "none", tokens |-> u.total.n]
          [] OTHER -> [exc |-> "none", tokens |-> 0]

\* a managed-chat outcome
GroqFailure(k) == [kind |-> k, choices |-> "null", content |-> Null, usage |-> Null]
GroqCompletion(choices, content, usage) ==
    [kind |-> "completion", choices |-> choices, content |-> content, usage |-> usage]

\* Groq(api_key=...) is built with the SDK's default max_retries
DEFAULT_MAX_RETRIES == 2

\* no_credential: the client cannot be built; api_error: the API rejects the
\* request (an error status the SDK does not retry); connection_error: the
\* connection fails on every attempt the SDK makes
GroqResponses(S, U) ==
    {GroqFailure("no_credential"), GroqFailure("api_error"),
     GroqFailure("connection_error")}
    \cup {GroqCompletion(c, Null, u) : c \in {"null", "empty", "list"}, u \in U}
    \cup {GroqCompletion("list", Str(t), u) : t \in S, u \in U}

\* groq_client = client or _get_client(); completion = ...create(...)
\* text = (completion.choices[0].message.content or "").strip()
\* tokens = completion.usage.total_tokens if completion.usage else 0
_chat_completion(resp) ==
    CASE resp.kind = "no_credential" -> [exc |-> "GroqError", text |-> <<>>, tokens |-> 0]
      [] resp.kind = "api_error" -> [exc |-> "APIError", text |-> <<>>, tokens |-> 0]
      [] resp.kind = "connection_error" ->
            [exc |-> "APIConnectionError", text |-> <<>>, tokens |-> 0]
      [] resp.choices = "null" -> [exc |-> "TypeError", text |-> <<>>, tokens |-> 0]
      [] resp.choices = "empty" -> [exc |-> "IndexError", text |-> <<>>, tokens |-> 0]
      [] OTHER ->
            [exc |-> "none",
             text |-> IF resp.content.tag = "str" THEN Strip(resp.content.s) ELSE <<>>,
             tokens |-> IF resp.usage.tag = "int" THEN resp.usage.n ELSE 0]

\* the number of requests _chat_completion sends: none when the client cannot be
\* built; a failed connection is retried by the SDK client max_retries times
GroqRequests(resp) ==
    IF resp.kind = "no_credential" THEN 0
    ELSE IF resp.kind = "connection_error" THEN 1 + DEFAULT_MAX_RETRIES
    ELSE 1

----------------------------------------------------------------------------
(* Sentiment parsing.  The model's raw output is a sequence of tokens:     *)
(*   "{" "}"        braces                                                 *)
(*   "sp"           a whitespace character                                 *)
(*   "neg" "pos"    the plain words `NEGATIVE` and `positive`              *)
(*   "mPos" "mNeg" "mMix"                                                  *)
(*                  the JSON members "sentiment": "Positive",              *)
(*                  "sentiment": "negative" and "sentiment": "Mixed"       *)
(* A JSON object is "{", optional whitespace, at most one member, optional *)
(* whitespace, "}" (two members need a comma, which no token carries).     *)

SentTokens == {"{", "}", "sp", "neg", "pos", "mPos", "mNeg", "mMix"}
RawTexts == SeqsUpTo(SentTokens, MaxRawLen)

IsMember(tok) == tok \in {"mPos", "mNeg", "mMix"}

\* the word a token spells (for a member: the value of its sentiment field)
Word(tok) ==
    CASE tok = "neg" -> "NEGATIVE"
      [] tok = "pos" -> "positive"
      [] tok = "mPos" -> "Positive"
      [] tok = "mNeg" -> "negative"
      [] tok = "mMix" -> "Mixed"
      [] OTHER -> ""

\* str.lower()
Lower(w) ==
    CASE w = "NEGATIVE" -> "negative"
      [] w = "Positive" -> "positive"
      [] w = "Mixed" -> "mixed"
      [] OTHER -> w

\* `kw in raw_text.lower()`
ContainsLower(text, kw) == \E i \in 1..Len(text) : Lower(Word(text[i])) = kw

\* lower = raw_text.lower(); "negative" first, then "positive", else neutral
KeywordSentiment(text) ==
    IF ContainsLower(text, "negative") THEN "negative"
    ELSE IF ContainsLower(text, "positive") THEN "positive"
    ELSE "neutral"

RECURSIVE SkipWhitespace(_, _)
SkipWhitespace(text, j) ==
    IF j <= Len(text) /\ text[j] = "sp" THEN SkipWhitespace(text, j + 1) ELSE j

NoObject == [ok |-> FALSE, has_sentiment |-> FALSE, sentiment |-> "", end |-> 0]

\* json.JSONDecoder().raw_decode(text, i) with text[i] = "{": the object that
\* starts at i and the index of its closing brace, or JSONDecodeError (ok = FALSE)
RawDecode(text, i) ==
    LET j == SkipWhitespace(text, i + 1) IN
    IF j > Len(text) THEN NoObject
    ELSE IF text[j] = "}" THEN
        [ok |-> TRUE, has_sentiment |-> FALSE, sentiment |-> "", end |-> j]
    ELSE IF IsMember(text[j]) THEN
        LET k == SkipWhitespace(text, j + 1) IN
        IF k <= Len(text) /\ text[k] = "}"
        THEN [ok |-> TRUE, has_sentiment |-> TRUE, sentiment |-> Word(text[j]), end |-> k]
        ELSE NoObject
    ELSE NoObject

RECURSIVE ExtractFrom(_, _)
ExtractFrom(text, i) ==
    IF i > Len(text) THEN NoObject
    ELSE IF text[i] = "{" /\ RawDecode(text, i).ok THEN RawDecode(text, i)
    ELSE ExtractFrom(text, i + 1)

\* for i, ch in enumerate(text): if ch == "{": try raw_decode(text, i) ...
_extract_first_json(text) == ExtractFrom(text, 1)

\* re.search(r"\{.*\}", raw_text, re.DOTALL): from the first "{" to the last "}"
RegexBraces(text) ==
    LET opens == {i \in 1..Len(text) : text[i] = "{"} IN
    IF opens = {} THEN [found |-> FALSE, span |-> <<>>]
    ELSE LET from == CHOOSE i \in opens : \A k \in opens : i <= k
             closes == {i \in 1..Len(text) : text[i] = "}" /\ i > from}
         IN  IF closes = {} THEN [found |-> FALSE, span |-> <<>>]
             ELSE LET to == CHOOSE i \in closes : \A k \in closes : i >= k
                  IN  [found |-> TRUE, span |-> SubSeq(text, from, to)]

\* json.loads(s) of a string that starts with "{": the whole string must be one object
JsonLoads(s) ==
    LET d == RawDecode(s, 1) IN IF d.ok /\ d.end = Len(s) THEN d ELSE NoObject

\* str(parsed.get("sentiment", "neutral")).lower()
SentimentField(obj) == IF obj.has_sentiment THEN Lower(obj.sentiment) ELSE "neutral"

\* sentiment_service.py lines 68-80: regex, json.loads, keyword search in the
\* except branch only
PhiParse(raw_text) ==
    LET m == RegexBraces(raw_text) IN
    IF ~m.found THEN [sentiment_raw |-> "neutral", parsed |-> FALSE]
    ELSE LET obj == JsonLoads(m.span) IN
         IF obj.ok THEN [sentiment_raw |-> SentimentField(obj), parsed |-> TRUE]
         ELSE [sentiment_raw |-> KeywordSentiment(raw_text), parsed |-> FALSE]

\* groq_service.py lines 272-284: _extract_first_json, else keyword search
GroqParse(raw_text) ==
    LET obj == _extract_first_json(raw_text) IN
    IF obj.ok THEN [sentiment_raw |-> SentimentField(obj), parsed |-> TRUE]
    ELSE [sentiment_raw |-> KeywordSentiment(raw_text), parsed |-> FALSE]

\* label, sentiment, polarity (1 stands for 1.0, -1 for -1.0, 0 for 0.0)
SentimentRow(sentiment_raw) ==
    IF sentiment_raw = "negative"
    THEN [label |-> "NEGATIVE", sentiment |-> "Negative", polarity |-> -1]
    ELSE IF sentiment_raw = "positive"
    THEN [label |-> "POSITIVE", sentiment |-> "Positive", polarity |-> 1]
    ELSE [label |-> "NEUTRAL", sentiment |-> "Neutral", polarity |-> 0]

\* a score of 1.0 whatever the sentiment
Score_One(sentiment_raw) == 1

\* score = 1.0 if sentiment_raw != "neutral" else 0.0
Score(sentiment_raw) == IF sentiment_raw # "neutral" THEN 1 ELSE 0

\* the `raw` field: None, the stripped text, or the parsed object
RawNone == [kind |-> "none", text |-> <<>>]
RawOf(raw_text, parsed) == [kind |-> IF parsed THEN "json" ELSE "text", text |-> raw_text]

\* the empty-input dict with the subjectivity of the backend path
EmptySentimentResult_Subjective(model_name) ==
    [sentiment |-> "Neutral", polarity |-> 0, subjectivity |-> 1, model |-> model_name,
     confidence |-> 0, label |-> "NEUTRAL", score |-> 0, raw |-> RawNone,
     token_count |-> 0, latency_ms |-> 0]

\* the dict returned for empty input
EmptySentimentResult(model_name) ==
    [sentiment |-> "Neutral", polarity |-> 0, subjectivity |-> 0, model |-> model_name,
     confidence |-> 0, label |-> "NEUTRAL", score |-> 0, raw |-> RawNone,
     token_count |-> 0, latency_ms |-> 0]

\* the dict assembled at the end of analyze
SentimentResult(model_name, raw_text, p, token_count, latency_ms) ==
    LET row == SentimentRow(p.sentiment_raw) IN
    [sentiment |-> row.sentiment, polarity |-> row.polarity, subjectivity |-> 1,
     model |-> model_name, confidence |-> Score(p.sentiment_raw), label |-> row.label,
     score |-> Score(p.sentiment_raw), raw |-> RawOf(raw_text, p.parsed),
     token_count |-> token_count, latency_ms |-> latency_ms]

\* len(text.split()): the fallback tokenizer's encode
SplitCount(text) ==
    Cardinality({i \in 1..Len(text) : text[i] # "sp" /\ (i = 1 \/ text[i - 1] = "sp")})

\* TokenizerProvider.count_tokens
CountTokens(text) == IF text = <<>> THEN 0 ELSE SplitCount(text)

PHI_MODEL_NAME == "phi3.5:latest"
GROQ_SENTIMENT_MODEL == "llama-3.1-8b-instant"

NoResult == [none |-> TRUE]
Returned(result, requests) ==
    [raised |-> FALSE, exc |-> "none", result |-> result, requests |-> requests]
Raised(exc, requests) ==
    [raised |-> TRUE, exc |-> exc, result |-> NoResult, requests |-> requests]

\* `if not text`
IsEmptyInput(text) == text = <<>>

\* SentimentService.analyze
PhiAnalyzeResult(text, resp, latency_ms) ==
    IF IsEmptyInput(text) THEN Returned(EmptySentimentResult(PHI_MODEL_NAME), 0)
    ELSE LET post == HttpPost(resp)
             body == IF post.exc = "none" THEN post.body ELSE EmptyBody
             first == FirstChoiceText(body)
         IN  IF first.exc # "none" THEN Raised(first.exc, 1)
             ELSE Returned(SentimentResult(PHI_MODEL_NAME, first.text, PhiParse(first.text),
                                           CountTokens(text), latency_ms), 1)

\* GroqSentimentService.analyze
GroqAnalyzeResult(text, resp, latency_ms) ==
    IF IsEmptyInput(text) THEN Returned(EmptySentimentResult(GROQ_SENTIMENT_MODEL), 0)
    ELSE LET cc == _chat_completion(resp)
             raw_text == IF cc.exc = "none" THEN cc.text ELSE <<>>
         IN  Returned(SentimentResult(GROQ_SENTIMENT_MODEL, raw_text, GroqParse(raw_text),
                                      0, latency_ms), GroqRequests(resp))

----------------------------------------------------------------------------
(* The sentiment services as a state machine: one action per analyze call. *)

\* article texts: characters "a" and whitespace "sp"
ArticleTexts == {<<>>, <<"a">>, <<"sp">>, <<"a", "sp", "a">>}
\* int((time.perf_counter() - start_time) * 1000) is whatever the clock gives
LatencySamples == {0, 7}
\* what the sentiment backends can answer (neither service reads usage)
PhiResponses == HttpResponses(RawTexts, {UsageAbsent})
GroqSentimentResponses == GroqResponses(RawTexts, {Null})

InitSentiment == InitTok

\* provider.count_tokens(text, model_name) -> get_tokenizer(model_name): the
\* cache gains an entry for the model on its first use
CacheAfterCount(m) ==
    /\ tokenizers' = IF tokenizers[m] = 0 THEN [tokenizers EXCEPT ![m] = nextObj + 1]
                     ELSE tokenizers
    /\ built' = IF tokenizers[m] = 0 THEN [built EXCEPT ![m] = @ + 1] ELSE built
    /\ nextObj' = IF tokenizers[m] = 0 THEN nextObj + 1 ELSE nextObj

\* SentimentService().analyze(text) with the backend answering resp
PhiAnalyze(text, resp, latency_ms) ==
    /\ call' = [op |-> "phi_sentiment", text |-> text, resp |-> resp, latency |-> latency_ms]
    /\ ret' = PhiAnalyzeResult(text, resp, latency_ms)
    /\ IF ~IsEmptyInput(text) /\ ~ret'.raised
       THEN CacheAfterCount(PHI_MODEL_NAME)
       ELSE UNCHANGED <<tokenizers, built, nextObj>>
    /\ UNCHANGED <<tpc, tmodel, tobj, tcalls, returned, globVars, envVars>>

\* GroqSentimentService().analyze(text) with the backend answering resp
GroqAnalyze(text, resp, latency_ms) ==
    /\ call' = [op |-> "groq_sentiment", text |-> text, resp |-> resp, latency |-> latency_ms]
    /\ ret' = GroqAnalyzeResult(text, resp, latency_ms)
    /\ UNCHANGED <<tokVars, globVars, envVars>>

\* the caller takes the result (or the exception); the next call may start
CallEnds ==
    /\ call # NoCall
    /\ call' = NoCall
    /\ ret' = NoRet
    /\ UNCHANGED <<tokVars, globVars, envVars>>

\* a call starts only when the previous one has ended
NextSentiment ==
    \/ /\ call = NoCall
       /\ \E text \in ArticleTexts, resp \in PhiResponses, latency_ms \in LatencySamples :
             PhiAnalyze(text, resp, latency_ms)
    \/ /\ call = NoCall
       /\ \E text \in ArticleTexts, resp \in GroqSentimentResponses,
             latency_ms \in LatencySamples : GroqAnalyze(text, resp, latency_ms)
    \/ CallEnds

SpecSentiment == InitSentiment /\ [][NextSentiment]_vars

----------------------------------------------------------------------------
(* What the claims about the sentiment services speak of. *)

SentimentOps == {"phi_sentiment", "groq_sentiment"}
SentimentFields ==
    {"sentiment", "polarity", "subjectivity", "model", "confidence", "label", "score",
     "raw", "token_count", "latency_ms"}
ServiceModel(op) == IF op = "phi_sentiment" THEN PHI_MODEL_NAME ELSE GROQ_SENTIMENT_MODEL

\* the backend answered with a text
HasBackendText(c) ==
    \/ /\ c.op = "phi_sentiment"
       /\ c.resp.net = "json"
       /\ c.resp.body.kind = "object"
       /\ c.resp.body.choices.tag = "list"
       /\ c.resp.body.choices.elems # <<>>
       /\ c.resp.body.choices.elems[1].tag = "object"
       /\ c.resp.body.choices.elems[1].text.tag = "str"
    \/ /\ c.op = "groq_sentiment"
       /\ c.resp.kind = "completion"
       /\ c.resp.choices = "list"
       /\ c.resp.content.tag = "str"

BackendText(c) ==
    IF c.op = "phi_sentiment" THEN c.resp.body.choices.elems[1].text.s ELSE c.resp.content.s

\* s is exactly one JSON object
IsJsonObjectText(s) ==
    /\ Len(s) >= 2
    /\ s[1] = "{"
    /\ s[Len(s)] = "}"
    /\ \A i \in 2..(Len(s) - 1) : s[i] = "sp" \/ IsMember(s[i])
    /\ Cardinality({i \in 2..(Len(s) - 1) : IsMember(s[i])}) <= 1

\* the places of text where a valid JSON object starts
ObjectStarts(text) ==
    {i \in 1..Len(text) : \E j \in i..Len(text) : IsJsonObjectText(SubSeq(text, i, j))}

ContainsJsonObject(text) == ObjectStarts(text) # {}

\* the sentiment named by the first valid JSON object of text, scanning left to right
FirstObjectSentiment(text) ==
    LET i == CHOOSE a \in ObjectStarts(text) : \A b \in ObjectStarts(text) : a <= b
        j == CHOOSE b \in i..Len(text) : IsJsonObjectText(SubSeq(text, i, b))
        vals == {Lower(Word(text[k])) : k \in {x \in i..j : IsMember(text[x])}}
    IN  IF "positive" \in vals THEN "Positive"
        ELSE IF "negative" \in vals THEN "Negative"
        ELSE "Neutral"

\* the sentiment the keyword search is to give
KeywordExpected(text) ==
    IF \E i \in 1..Len(text) : Lower(Word(text[i])) = "negative" THEN "Negative"
    ELSE IF \E i \in 1..Len(text) : Lower(Word(text[i])) = "positive" THEN "Positive"
    ELSE "Neutral"

\* C2: for every non-empty input and every backend outcome, both analyze methods
\* return a dict with all ten fields and do not raise.
C2_SentimentNeverRaises ==
    (call.op \in SentimentOps /\ call.text # <<>>)
        => (~ret.raised /\ DOMAIN ret.result = SentimentFields)

\* C3: whenever the backend's raw text holds no valid JSON object, the sentiment
\* of both services is the keyword search's: Negative, else Positive, else Neutral.
C3_KeywordFallback ==
    (/\ call.op \in SentimentOps
     /\ call.text # <<>>
     /\ HasBackendText(call)
     /\ ~ContainsJsonObject(BackendText(call)))
        => (~ret.raised /\ ret.result.sentiment = KeywordExpected(BackendText(call)))

\* C4: whenever the backend's raw text holds a valid JSON object, the sentiment
\* of both services is the one named by the first such object, whatever
\* surrounds it.
C4_JsonFirst ==
    (/\ call.op \in SentimentOps
     /\ call.text # <<>>
     /\ HasBackendText(call)
     /\ ContainsJsonObject(BackendText(call)))
        => (~ret.raised /\ ret.result.sentiment = FirstObjectSentiment(BackendText(call)))

\* C5: analyze("") of either service returns exactly the fixed neutral result
\* with the service's model name, and no backend request is issued.
C5_EmptyInputShortCircuit ==
    (call.op \in SentimentOps /\ call.text = <<>>)
        => /\ ~ret.raised
           /\ ret.requests = 0
           /\ ret.result =
                [sentiment |-> "Neutral", polarity |-> 0, subjectivity |-> 0,
                 confidence |-> 0, label |-> "NEUTRAL", score |-> 0, raw |-> RawNone,
                 token_count |-> 0, latency_ms |-> 0, model |-> ServiceModel(call.op)]

\* an empty text was analysed while the backend stood ready to answer "positive"
C5_Witness ==
    /\ call.op = "groq_sentiment"
    /\ call.text = <<>>
    /\ call.resp.kind = "completion"
    /\ call.resp.choices = "list"
    /\ call.resp.content = Str(<<"{", "mPos", "}">>)
    /\ ret.requests = 0
    /\ ret.result.latency_ms = 0

\* C6: every result returned by either service is one of the three rows of the
\* mapping table, and confidence equals score.
C6_MappingRows ==
    (call.op \in SentimentOps /\ ~ret.raised)
        => /\ <<ret.result.sentiment, ret.result.label, ret.result.polarity, ret.result.score>>
                \in {<<"Negative", "NEGATIVE", -1, 1>>, <<"Positive", "POSITIVE", 1, 1>>,
                     <<"Neutral", "NEUTRAL", 0, 0>>}
           /\ ret.result.confidence = ret.result.score

----------------------------------------------------------------------------
(* Rhetoric analysis and comparison, in the HTTP-completion variant        *)
(* (analysis_service.py) and the managed-chat variant (groq_service.py).   *)
(* A response text is a sequence over "a" (a character), "sp" (whitespace) *)
(* and the tags "<think>" and "</THINK>".  An error message is the         *)
(* sequence of its words; None is the empty sequence.                      *)

AnalysisTokens == {"a", "sp", "<think>", "</THINK>"}
ResponseTexts == SeqsUpTo(AnalysisTokens, MaxRespLen)

None == <<>>
RHETORIC_DEFAULT == <<"Rhetorical analysis unavailable for this story.">>
COMPARISON_DEFAULT == <<"Comparison unavailable for this pair of stories.">>
NO_CONTENT == <<"No", "content", "provided.">>
ARTICLE_EMPTY == <<"One", "of", "the", "articles", "was", "empty.">>
GROQ_RHETORIC_MODEL == "llama-3.1-8b-instant"
GROQ_COMPARISON_MODEL == "llama-3.3-70b-versatile"
QWEN_TOKENIZER == "qwen2-7b"
MISTRAL_TOKENIZER == "mistralai/Mistral-7B-Instruct-v0.2"
TRUNCATE_LIMIT == 4000

\* the same without .rstrip() on the cut
_truncate_text_cut(text, limit) ==
    LET trimmed == Strip(text) IN
    IF Len(trimmed) <= limit THEN trimmed
    ELSE SubSeq(trimmed, 1, limit) \o <<"sp", ".", ".", ".">>

\* the same without text.strip()
_truncate_text_untrimmed(text, limit) ==
    IF Len(text) <= limit THEN text
    ELSE RStrip(SubSeq(text, 1, limit)) \o <<"sp", ".", ".", ".">>

\* _truncate_text(text, limit): " ..." is a space and three dots
_truncate_text(text, limit) ==
    LET trimmed == Strip(text) IN
    IF Len(trimmed) <= limit THEN trimmed
    ELSE RStrip(SubSeq(trimmed, 1, limit)) \o <<"sp", ".", ".", ".">>

\* re.IGNORECASE: <think> and </think> in any letter case
IsOpenTag(tok) == tok \in {"<think>", "<THINK>"}
IsCloseTag(tok) == tok \in {"</think>", "</THINK>"}

\* re.sub(r"<think>[\s\S]*?</think>", "", text): leftmost opening tag that has a
\* closing tag after it, up to the nearest such closing tag; then on from there
RECURSIVE RemoveThink(_)
RemoveThink(s) ==
    IF s = <<>> THEN <<>>
    ELSE LET closes == {j \in 2..Len(s) : IsCloseTag(s[j])} IN
         IF IsOpenTag(Head(s)) /\ closes # {}
         THEN LET j == CHOOSE a \in closes : \A b \in closes : a <= b
              IN  RemoveThink(SubSeq(s, j + 1, Len(s)))
         ELSE <<Head(s)>> \o RemoveThink(Tail(s))

\* the same with a greedy [\s\S]*: up to the last closing tag
RECURSIVE RemoveThinkGreedy(_)
RemoveThinkGreedy(s) ==
    IF s = <<>> THEN <<>>
    ELSE LET closes == {j \in 2..Len(s) : IsCloseTag(s[j])} IN
         IF IsOpenTag(Head(s)) /\ closes # {}
         THEN LET j == CHOOSE a \in closes : \A b \in closes : a >= b
              IN  RemoveThinkGreedy(SubSeq(s, j + 1, Len(s)))
         ELSE <<Head(s)>> \o RemoveThinkGreedy(Tail(s))

_strip_think_greedy(text) == Strip(RemoveThinkGreedy(text))

\* cleaned = re.sub(...); return cleaned.strip()
_strip_think(text) == Strip(RemoveThink(text))

\* the alias filled in only when the call succeeds
RhetoricResult_AliasOnSuccess(model_name, text, tokens_used, error) ==
    [model |-> model_name, tokens_used |-> tokens_used, error |-> error, text |-> text,
     analysis |-> IF error = <<>> THEN text ELSE <<>>]

\* _build_response plus result["analysis"] = result["text"]
RhetoricResult(model_name, text, tokens_used, error) ==
    [model |-> model_name, tokens_used |-> tokens_used, error |-> error, text |-> text,
     analysis |-> text]

\* _build_response plus result["comparison"] = result["text"]
ComparisonResult(model_name, text, tokens_used, error) ==
    [model |-> model_name, tokens_used |-> tokens_used, error |-> error, text |-> text,
     comparison |-> text]

\* the text kept as it is, even when empty
OrDefault_Keep(text, default) == text

\* `analysis_text or result["text"]`
OrDefault(text, default) == IF text = <<>> THEN default ELSE text

\* the try block of analysis_service.analyze_rhetoric / compare_article_texts and
\* its two except clauses; an exception of any other class leaves the function
HttpOutcome(resp, backend) ==
    LET post == HttpPost(resp)
        first == FirstChoiceText(post.body)
        usage == UsageTotal(post.body)
        exc == IF post.exc # "none" THEN post.exc
               ELSE IF first.exc # "none" THEN first.exc
               ELSE usage.exc
    IN  IF exc = "none"
        THEN [raised |-> FALSE, exc |-> "none", text |-> first.text,
              tokens |-> usage.tokens, error |-> None]
        ELSE IF IsRequestException(exc)
        THEN [raised |-> FALSE, exc |-> "none", text |-> <<>>, tokens |-> 0,
              error |-> <<backend, "request", "failed:", exc>>]
        ELSE IF IsValueOrKeyError(exc)
        THEN [raised |-> FALSE, exc |-> "none", text |-> <<>>, tokens |-> 0,
              error |-> <<backend, "response", "invalid:", exc>>]
        ELSE [raised |-> TRUE, exc |-> exc, text |-> <<>>, tokens |-> 0, error |-> None]

\* analysis_service.analyze_rhetoric
HttpRhetoricResult(article_text, resp) ==
    IF _truncate_text(article_text, TRUNCATE_LIMIT) = <<>>
    THEN Returned(RhetoricResult("Qwen2-7B", RHETORIC_DEFAULT, 0, NO_CONTENT), 0)
    ELSE LET o == HttpOutcome(resp, "Qwen") IN
         IF o.raised THEN Raised(o.exc, 1)
         ELSE Returned(RhetoricResult("Qwen2-7B", OrDefault(o.text, RHETORIC_DEFAULT),
                                      o.tokens, o.error), 1)

\* analysis_service.compare_article_texts
HttpCompareResult(primary_text, reference_text, resp) ==
    IF \/ _truncate_text(primary_text, TRUNCATE_LIMIT) = <<>>
       \/ _truncate_text(reference_text, TRUNCATE_LIMIT) = <<>>
    THEN Returned(ComparisonResult("Mistral-7B", COMPARISON_DEFAULT, 0, ARTICLE_EMPTY), 0)
    ELSE LET o == HttpOutcome(resp, "Mistral") IN
         IF o.raised THEN Raised(o.exc, 1)
         ELSE Returned(ComparisonResult("Mistral-7B", OrDefault(o.text, COMPARISON_DEFAULT),
                                        o.tokens, o.error), 1)

\* groq_service.analyze_rhetoric: everything after the prompt is inside
\* try / except Exception
GroqRhetoricResult(article_text, resp) ==
    IF _truncate_text(article_text, TRUNCATE_LIMIT) = <<>>
    THEN Returned(RhetoricResult(GROQ_RHETORIC_MODEL, RHETORIC_DEFAULT, 0, NO_CONTENT), 0)
    ELSE LET cc == _chat_completion(resp) IN
         IF cc.exc # "none"
         THEN Returned(RhetoricResult(GROQ_RHETORIC_MODEL, RHETORIC_DEFAULT, 0,
                         <<"Groq", "rhetoric", "request", "failed:", cc.exc>>),
                       GroqRequests(resp))
         ELSE Returned(RhetoricResult(GROQ_RHETORIC_MODEL,
                         OrDefault(_strip_think(cc.text), RHETORIC_DEFAULT), cc.tokens, None),
                       GroqRequests(resp))

\* groq_service.compare_article_texts
GroqCompareResult(primary_text, reference_text, resp) ==
    IF \/ _truncate_text(primary_text, TRUNCATE_LIMIT) = <<>>
       \/ _truncate_text(reference_text, TRUNCATE_LIMIT) = <<>>
    THEN Returned(ComparisonResult(GROQ_COMPARISON_MODEL, COMPARISON_DEFAULT, 0,
                                   ARTICLE_EMPTY), 0)
    ELSE LET cc == _chat_completion(resp) IN
         IF cc.exc # "none"
         THEN Returned(ComparisonResult(GROQ_COMPARISON_MODEL, COMPARISON_DEFAULT, 0,
                         <<"Groq", "comparison", "request", "failed:", cc.exc>>),
                       GroqRequests(resp))
         ELSE Returned(ComparisonResult(GROQ_COMPARISON_MODEL,
                         OrDefault(_strip_think(cc.text), COMPARISON_DEFAULT), cc.tokens,
                         None),
                       GroqRequests(resp))

----------------------------------------------------------------------------
(* The analysis operations as a state machine: one action per call. *)

\* usage as the completion server may report it (55 as in the repository's tests)
HttpUsages ==
    {UsageAbsent, UsageNull, UsageObject(Absent), UsageObject(Null), UsageObject(Num(0)),
     UsageObject(Num(55))}
AnalysisHttpResponses == HttpResponses(ResponseTexts, HttpUsages)
AnalysisGroqResponses == GroqResponses(ResponseTexts, {Null, Num(55)})

InitAnalysis == InitTok

\* _tokenize(text, tokenizer_name, TOKEN_CLIP_SIZE) -> provider.get_tokenizer(name)
HttpAnalyzeRhetoric(article_text, resp) ==
    /\ call' = [op |-> "http_rhetoric", text |-> article_text, resp |-> resp]
    /\ ret' = HttpRhetoricResult(article_text, resp)
    /\ IF _truncate_text(article_text, TRUNCATE_LIMIT) # <<>>
       THEN CacheAfterCount(QWEN_TOKENIZER)
       ELSE UNCHANGED <<tokenizers, built, nextObj>>
    /\ UNCHANGED <<tpc, tmodel, tobj, tcalls, returned, globVars, envVars>>

HttpCompareArticleTexts(primary_text, reference_text, resp) ==
    /\ call' = [op |-> "http_compare", text |-> primary_text,
                reference |-> reference_text, resp |-> resp]
    /\ ret' = HttpCompareResult(primary_text, reference_text, resp)
    /\ IF /\ _truncate_text(primary_text, TRUNCATE_LIMIT) # <<>>
          /\ _truncate_text(reference_text, TRUNCATE_LIMIT) # <<>>
       THEN CacheAfterCount(MISTRAL_TOKENIZER)
       ELSE UNCHANGED <<tokenizers, built, nextObj>>
    /\ UNCHANGED <<tpc, tmodel, tobj, tcalls, returned, globVars, envVars>>

GroqAnalyzeRhetoric(article_text, resp) ==
    /\ call' = [op |-> "groq_rhetoric", text |-> article_text, resp |-> resp]
    /\ ret' = GroqRhetoricResult(article_text, resp)
    /\ UNCHANGED <<tokVars, globVars, envVars>>

GroqCompareArticleTexts(primary_text, reference_text, resp) ==
    /\ call' = [op |-> "groq_compare", text |-> primary_text,
                reference |-> reference_text, resp |-> resp]
    /\ ret' = GroqCompareResult(primary_text, reference_text, resp)
    /\ UNCHANGED <<tokVars, globVars, envVars>>

\* a call starts only when the previous one has ended
NextAnalysis ==
    \/ /\ call = NoCall
       /\ \E t \in ArticleTexts, resp \in AnalysisHttpResponses : HttpAnalyzeRhetoric(t, resp)
    \/ /\ call = NoCall
       /\ \E t \in ArticleTexts, r \in ArticleTexts, resp \in AnalysisHttpResponses :
             HttpCompareArticleTexts(t, r, resp)
    \/ /\ call = NoCall
       /\ \E t \in ArticleTexts, resp \in AnalysisGroqResponses : GroqAnalyzeRhetoric(t, resp)
    \/ /\ call = NoCall
       /\ \E t \in ArticleTexts, r \in ArticleTexts, resp \in AnalysisGroqResponses :
             GroqCompareArticleTexts(t, r, resp)
    \/ CallEnds

SpecAnalysis == InitAnalysis /\ [][NextAnalysis]_vars

----------------------------------------------------------------------------
(* What the claims about the analysis operations speak of. *)

AnalysisOps == {"http_rhetoric", "http_compare", "groq_rhetoric", "groq_compare"}
IsCompare(op) == op \in {"http_compare", "groq_compare"}
IsHttp(op) == op \in {"http_rhetoric", "http_compare"}
BackendName(op) ==
    IF op = "http_rhetoric" THEN "Qwen" ELSE IF op = "http_compare" THEN "Mistral" ELSE "Groq"
DefaultText(op) == IF IsCompare(op) THEN COMPARISON_DEFAULT ELSE RHETORIC_DEFAULT
Alias(result, op) == IF IsCompare(op) THEN result.comparison ELSE result.analysis

InputsNonEmpty(c) == c.text # <<>> /\ (IsCompare(c.op) => c.reference # <<>>)
\* the inputs are non-empty after trimming, so the backend is asked
InputsUsable(c) ==
    Strip(c.text) # <<>> /\ (IsCompare(c.op) => Strip(c.reference) # <<>>)

\* C7: for every non-empty input and every backend outcome, analyze_rhetoric and
\* compare_article_texts of both variants return a result dict and do not raise.
C7_AnalysisNeverRaises ==
    (call.op \in AnalysisOps /\ InputsNonEmpty(call)) => ~ret.raised

\* the response has an empty or absent choices array (and is otherwise well formed)
ChoicesEmptyOrAbsent(c) ==
    IF IsHttp(c.op)
    THEN /\ c.resp.net = "json"
         /\ c.resp.body.kind = "object"
         /\ c.resp.body.choices \in {ChoicesAbsent, ChoicesList(<<>>)}
         /\ c.resp.body.usage.tag # "null"
    ELSE c.resp.kind = "completion" /\ c.resp.choices \in {"empty", "null"}

UsageMissing(c) ==
    IF IsHttp(c.op)
    THEN c.resp.net = "json" /\ c.resp.body.kind = "object" /\ c.resp.body.usage.tag = "absent"
    ELSE c.resp.kind = "completion" /\ c.resp.usage.tag = "null"

\* C8: in both client shapes an empty or absent choices array is treated as an
\* empty response text (error stays null, text and its alias are the default
\* string), and a missing usage gives tokens_used = 0.
C8_ToleratesEmptyChoicesAndMissingUsage ==
    (call.op \in AnalysisOps /\ InputsUsable(call))
        => /\ ChoicesEmptyOrAbsent(call)
                => /\ ~ret.raised
                   /\ ret.result.error = None
                   /\ ret.result.text = DefaultText(call.op)
                   /\ Alias(ret.result, call.op) = DefaultText(call.op)
           /\ (UsageMissing(call) /\ ~ret.raised) => ret.result.tokens_used = 0

\* the backend call fails by transport, or its response cannot be parsed
BackendFailed(c) ==
    IF IsHttp(c.op)
    THEN \/ c.resp.net \in HttpFailures
         \/ /\ c.resp.net = "json"
            /\ \/ c.resp.body.kind # "object"
               \/ c.resp.body.choices.tag = "dict"
               \/ /\ c.resp.body.choices.tag = "list"
                  /\ c.resp.body.choices.elems # <<>>
                  /\ \/ c.resp.body.choices.elems[1].tag # "object"
                     \/ c.resp.body.choices.elems[1].text.tag = "null"
               \/ c.resp.body.usage.tag = "null"
    ELSE c.resp.kind \in {"no_credential", "api_error", "connection_error"}

ExceptionNames ==
    {"ConnectionError", "Timeout", "HTTPError", "JSONDecodeError", "KeyError",
     "AttributeError", "GroqError", "APIError", "APIConnectionError", "TypeError",
     "IndexError"}

\* C9: whenever the backend call fails by transport or by an unparseable
\* response, the returned result has a non-null error that contains the
\* backend name and the word "failed" followed by the cause, and text and its
\* alias are the operation's default message.
C9_FailureReporting ==
    (call.op \in AnalysisOps /\ InputsUsable(call) /\ BackendFailed(call) /\ ~ret.raised)
        => /\ ret.result.error # None
           /\ \E i \in 1..Len(ret.result.error) : ret.result.error[i] = BackendName(call.op)
           /\ \E i \in 1..(Len(ret.result.error) - 1) :
                 /\ ret.result.error[i] = "failed:"
                 /\ ret.result.error[i + 1] \in ExceptionNames
           /\ ret.result.text = DefaultText(call.op)
           /\ Alias(ret.result, call.op) = DefaultText(call.op)

\* the backend answered with response text and (possibly no) usage
AnsweredWithText(c) ==
    IF IsHttp(c.op)
    THEN /\ c.resp.net = "json"
         /\ c.resp.body.kind = "object"
         /\ c.resp.body.choices.tag = "list"
         /\ c.resp.body.choices.elems # <<>>
         /\ c.resp.body.choices.elems[1].tag = "object"
         /\ c.resp.body.choices.elems[1].text.tag = "str"
         /\ c.resp.body.usage.tag # "null"
    ELSE c.resp.kind = "completion" /\ c.resp.choices = "list" /\ c.resp.content.tag = "str"

ResponseText(c) ==
    IF IsHttp(c.op) THEN c.resp.body.choices.elems[1].text.s ELSE c.resp.content.s

\* the provider's usage, 0 when it reports none
ReportedUsage(c) ==
    IF IsHttp(c.op)
    THEN IF c.resp.body.usage.tag = "object" /\ c.resp.body.usage.total.tag = "int"
         THEN c.resp.body.usage.total.n ELSE 0
    ELSE IF c.resp.usage.tag = "int" THEN c.resp.usage.n ELSE 0

\* the positions of t inside a complete <think>...</think> block, from position i on
RECURSIVE ThinkPositions(_, _)
ThinkPositions(t, i) ==
    IF i > Len(t) THEN {}
    ELSE LET ends == {j \in (i + 1)..Len(t) : IsCloseTag(t[j])} IN
         IF IsOpenTag(t[i]) /\ ends # {}
         THEN LET j == CHOOSE a \in ends : \A b \in ends : a <= b
              IN  (i..j) \cup ThinkPositions(t, j + 1)
         ELSE ThinkPositions(t, i + 1)

\* the tokens of t at the positions of `keep`, in order
RECURSIVE Pick(_, _, _)
Pick(t, keep, i) ==
    IF i > Len(t) THEN <<>>
    ELSE (IF i \in keep THEN <<t[i]>> ELSE <<>>) \o Pick(t, keep, i + 1)

WithoutThinkBlocks(t) == Pick(t, (1..Len(t)) \ ThinkPositions(t, 1), 1)

\* C10 as stated: on a response text t with usage u the result has error = null,
\* tokens_used = u (0 if none is reported) and text = alias = trimmed t, or the
\* default string when trimmed t is empty.
C10_SuccessTrimmedText ==
    (call.op \in AnalysisOps /\ InputsUsable(call) /\ AnsweredWithText(call))
        => /\ ~ret.raised
           /\ ret.result.error = None
           /\ ret.result.tokens_used = ReportedUsage(call)
           /\ ret.result.text = OrDefault(Strip(ResponseText(call)), DefaultText(call.op))
           /\ Alias(ret.result, call.op) = ret.result.text

\* C10 as amended: the same, where in the managed-chat variant t is first rid
\* of its complete <think>...</think> blocks.
C10_SuccessNormalisation ==
    (call.op \in AnalysisOps /\ InputsUsable(call) /\ AnsweredWithText(call))
        => LET t == IF IsHttp(call.op) THEN ResponseText(call)
                    ELSE WithoutThinkBlocks(ResponseText(call))
           IN  /\ ~ret.raised
               /\ ret.result.error = None
               /\ ret.result.tokens_used = ReportedUsage(call)
               /\ ret.result.text = OrDefault(Strip(t), DefaultText(call.op))
               /\ Alias(ret.result, call.op) = ret.result.text

\* a managed-chat answer with a reasoning block, padding and 55 tokens of usage
C10_Witness ==
    /\ call.op = "groq_rhetoric"
    /\ call.text = <<"a", "sp", "a">>
    /\ call.resp = GroqCompletion("list", Str(<<"<think>", "</THINK>", "a">>), Num(55))
    /\ ret.result.text = <<"a">>
    /\ ret.result.analysis = <<"a">>
    /\ ret.result.tokens_used = 55
    /\ ret.result.error = None

\* C11: every result returned by analyze_rhetoric or compare_article_texts (either
\* variant, any input, any backend outcome) has a non-null, non-empty text, and
\* text equals its alias analysis (resp. comparison).
C11_TextInvariant ==
    (call.op \in AnalysisOps /\ ~ret.raised)
        => /\ ret.result.text # None
           /\ Len(ret.result.text) >= 1
           /\ Alias(ret.result, call.op) = ret.result.text

\* a failed comparison: the error is populated and the text is the default message
C11_Witness ==
    /\ call.op = "groq_compare"
    /\ InputsUsable(call)
    /\ call.resp = GroqFailure("api_error")
    /\ ~ret.raised
    /\ ret.result.error # None
    /\ ret.result.text = COMPARISON_DEFAULT
    /\ ret.result.comparison = COMPARISON_DEFAULT

\* the words of an error message that contain "empty"
EmptyWords == {"empty", "empty."}

\* C12: analyze_rhetoric on empty or whitespace-only text returns error =
\* "No content provided." with analysis the default message; compare_article_texts
\* with either argument empty or whitespace-only returns a non-null error
\* containing "empty" with comparison the default; no backend request is issued.
C12_EmptyInputAnalysis ==
    (call.op \in AnalysisOps /\ ~InputsUsable(call))
        => /\ ~ret.raised
           /\ ret.requests = 0
           /\ IF IsCompare(call.op)
              THEN /\ ret.result.error # None
                   /\ \E i \in 1..Len(ret.result.error) : ret.result.error[i] \in EmptyWords
                   /\ ret.result.comparison = COMPARISON_DEFAULT
              ELSE /\ ret.result.error = NO_CONTENT
                   /\ ret.result.analysis = RHETORIC_DEFAULT

\* a comparison whose reference is whitespace only, with a backend that would answer
C12_Witness ==
    /\ call.op = "http_compare"
    /\ call.text = <<"a">>
    /\ call.reference = <<"sp">>
    /\ call.resp.net = "json"
    /\ ~ret.raised
    /\ ret.requests = 0
    /\ ret.result.error = ARTICLE_EMPTY
    /\ ret.result.comparison = COMPARISON_DEFAULT

HasThinkBlock(t) == ThinkPositions(t, 1) # {}

\* C13: for every response text with one or more complete <think>...</think>
\* blocks, the analysis / comparison text returned by either variant contains
\* none of those blocks and equals the trimmed remainder of the response.
C13_ThinkBlocksStripped ==
    (/\ call.op \in AnalysisOps
     /\ InputsUsable(call)
     /\ AnsweredWithText(call)
     /\ HasThinkBlock(ResponseText(call))
     /\ ~ret.raised)
        => LET rest == Strip(WithoutThinkBlocks(ResponseText(call))) IN
           /\ ~HasThinkBlock(Alias(ret.result, call.op))
           /\ rest # <<>> => Alias(ret.result, call.op) = rest

----------------------------------------------------------------------------
(* The text helpers of groq_service.py / analysis_service.py called on     *)
(* their own: _strip_think(text) and _truncate_text(text, limit).          *)

\* the longest text handed to _truncate_text, and the largest limit
MaxTextLen == 5
MaxLimit == 3

TruncateTexts == SeqsUpTo({"a", "sp"}, MaxTextLen)
TruncateLimits == 1..MaxLimit

\* Token ids as a tokenizer may hand them to _normalize_token_ids: integers
\* (negative and large ones too) and strings, the empty string among them.
MaxIdsLen == 3
TokenStrings == {<<>>, <<"a">>, <<"b">>}
TokenSamples == {Num(0 - 3), Num(7)} \cup {Str(w) : w \in TokenStrings}
TokenIdLists == SeqsUpTo(TokenSamples, MaxIdsLen)
MaxTokensLimits == 0..MaxLimit

\* hash() of a str: a signed value fixed for the life of one interpreter and
\* seeded per process (PYTHONHASHSEED), except that hash("") is 0 in CPython.
\* The samples hold 0, a negative value and values at and above the modulus.
HASH_MODULUS == 1000000
HashSamples == {0, 0 - 7, HASH_MODULUS, HASH_MODULUS + 7}
StrHashes == {h \in [TokenStrings -> HashSamples] : h[<<>>] = 0}

Abs(n) == IF n < 0 THEN 0 - n ELSE n

\* the loop of _normalize_token_ids over the tokens still to come
RECURSIVE NormalizeLoop(_, _, _, _)
NormalizeLoop(token_ids, max_tokens, result, str_hash) ==
    IF token_ids = <<>> \/ Len(result) >= max_tokens THEN result
    ELSE LET token == Head(token_ids)
             id == IF token.tag = "int" THEN token.n
                   ELSE Abs(str_hash[token.s]) % HASH_MODULUS
         IN  NormalizeLoop(Tail(token_ids), max_tokens, Append(result, id), str_hash)

\* _normalize_token_ids(token_ids, max_tokens) in a process whose str hash is
\* str_hash
_normalize_token_ids(token_ids, max_tokens, str_hash) ==
    NormalizeLoop(token_ids, max_tokens, <<>>, str_hash)

InitText == InitTok

\* _normalize_token_ids(token_ids, max_tokens)
NormalizeTokenIdsCall(token_ids, max_tokens, str_hash) ==
    /\ call' = [op |-> "_normalize_token_ids", token_ids |-> token_ids,
                max_tokens |-> max_tokens]
    /\ ret' = Returned(_normalize_token_ids(token_ids, max_tokens, str_hash), 0)
    /\ UNCHANGED <<tokVars, globVars, envVars>>

\* _strip_think(text)
StripThinkCall(text) ==
    /\ call' = [op |-> "_strip_think", text |-> text]
    /\ ret' = Returned(_strip_think(text), 0)
    /\ UNCHANGED <<tokVars, globVars, envVars>>

\* _truncate_text(text, limit)
TruncateTextCall(text, limit) ==
    /\ call' = [op |-> "_truncate_text", text |-> text, limit |-> limit]
    /\ ret' = Returned(_truncate_text(text, limit), 0)
    /\ UNCHANGED <<tokVars, globVars, envVars>>

NextText ==
    \/ /\ call = NoCall
       /\ \E text \in ResponseTexts : StripThinkCall(text)
    \/ /\ call = NoCall
       /\ \E text \in TruncateTexts, limit \in TruncateLimits : TruncateTextCall(text, limit)
    \/ /\ call = NoCall
       /\ \E token_ids \in TokenIdLists, max_tokens \in MaxTokensLimits,
             str_hash \in StrHashes :
             NormalizeTokenIdsCall(token_ids, max_tokens, str_hash)
    \/ CallEnds

SpecText == InitText /\ [][NextText]_vars

HasCloseTag(t) == \E i \in 1..Len(t) : IsCloseTag(t[i])

\* C14: for every text with no </think> closing tag (with or without an opening
\* tag, whatever its leading or trailing whitespace), _strip_think returns the
\* text unchanged.
C14_NoClosingTagUnchanged ==
    (call.op = "_strip_think" /\ ~HasCloseTag(call.text)) => ret.result = call.text

\* C15 as stated: a text whose trimmed length exceeds the limit becomes exactly
\* the first `limit` characters of the trimmed text followed by " ..."; a text
\* whose trimmed length is at most the limit becomes the trimmed text.
C15_TruncationExact ==
    call.op = "_truncate_text"
        => LET trimmed == Strip(call.text) IN
           IF Len(trimmed) > call.limit
           THEN ret.result = SubSeq(trimmed, 1, call.limit) \o <<"sp", ".", ".", ".">>
           ELSE ret.result = trimmed

\* C15 as amended: the first `limit` characters of the trimmed text lose their
\* trailing whitespace before " ..." is appended.
C15_TruncationTrimmedCut ==
    call.op = "_truncate_text"
        => LET trimmed == Strip(call.text) IN
           IF Len(trimmed) > call.limit
           THEN /\ ret.result
                     = RStrip(SubSeq(trimmed, 1, call.limit)) \o <<"sp", ".", ".", ".">>
                /\ Len(ret.result) <= call.limit + 4
           ELSE ret.result = trimmed

\* "a a" cut after its second character, which is whitespace
C15_Witness ==
    /\ call.op = "_truncate_text"
    /\ call.text = <<"a", "sp", "a">>
    /\ call.limit = 2
    /\ ret.result = <<"a", "sp", ".", ".", ".">>

----------------------------------------------------------------------------
(* Chunking and analyze_sentiment (services.py).  A text is a sequence of  *)
(* characters: the letters "a" and "b", whitespace "sp" and the period     *)
(* ".".  The tokenizer in use is the fallback tokenizer of                 *)
(* tokenizer_utils.py, which _get_tokenizer installs when no tokenizer of  *)
(* the model is found locally: its tokens are the whitespace-separated     *)
(* words.                                                                  *)

\* the longest text handed to the chunker, and the largest max_tokens
MaxChunkTextLen == 5
MaxBudget == 3

ChunkChars == {"a", "b", "sp", "."}
ChunkTexts == SeqsUpTo(ChunkChars, MaxChunkTextLen)
MaxTokensSamples == (0 - 1)..MaxBudget

Min(a, b) == IF a <= b THEN a ELSE b
Max(a, b) == IF a >= b THEN a ELSE b
NonEmpty(x) == x # <<>>

\* the first position of c in s, 0 when there is none
FirstIndex(s, c) ==
    IF \E i \in 1..Len(s) : s[i] = c
    THEN CHOOSE i \in 1..Len(s) : s[i] = c /\ \A j \in 1..(i - 1) : s[j] # c
    ELSE 0

\* s.split(c)
RECURSIVE SplitOn(_, _)
SplitOn(s, c) ==
    LET i == FirstIndex(s, c) IN
    IF i = 0 THEN <<s>>
    ELSE <<SubSeq(s, 1, i - 1)>> \o SplitOn(SubSeq(s, i + 1, Len(s)), c)

\* s.split(): the whitespace-separated words, each running from a character
\* that starts a word to the next character that ends one
SplitWhitespace(s) ==
    LET positions == [i \in 1..Len(s) |-> i]
        StartsWord(i) == s[i] # "sp" /\ (i = 1 \/ s[i - 1] = "sp")
        EndsWord(i) == s[i] # "sp" /\ (i = Len(s) \/ s[i + 1] = "sp")
        starts == SelectSeq(positions, StartsWord)
        ends == SelectSeq(positions, EndsWord)
    IN  [k \in 1..Len(starts) |-> SubSeq(s, starts[k], ends[k])]

\* sep.join(parts), joining the two halves of a longer list
RECURSIVE Join(_, _)
Join(parts, sep) ==
    IF parts = <<>> THEN <<>>
    ELSE IF Len(parts) = 1 THEN parts[1]
    ELSE LET half == Len(parts) \div 2 IN
         Join(SubSeq(parts, 1, half), sep) \o sep
             \o Join(SubSeq(parts, half + 1, Len(parts)), sep)

\* A tokenizer as _get_max_chunk_tokens sees it: model_max_length is Absent (no
\* such attribute), Null (None) or Num(n); special_tokens is Absent (no
\* num_special_tokens_to_add method) or Num(k), the value of the method.
\* create_fallback_tokenizer(): model_max_length, num_special_tokens_to_add()
FallbackTokenizer == [model_max_length |-> Num(512), special_tokens |-> Num(2)]
\* encode(text) = [token for token in text.split() if token]
Encode(text) == SplitWhitespace(text)
\* decode(tokens) = " ".join(tokens)
Decode(tokens) == Join(tokens, <<"sp">>)

\* _get_max_chunk_tokens(tokenizer, max_tokens)
UNBOUNDED_CONTEXT == 100000
\* a budget of one token whatever the tokenizer
_get_max_chunk_tokens_one(tokenizer, max_tokens) == Min(max_tokens, 1)
_get_max_chunk_tokens(tokenizer, max_tokens) ==
    LET attr == IF tokenizer.model_max_length.tag = "absent" THEN Num(max_tokens)
                ELSE tokenizer.model_max_length
        model_max == IF attr.tag = "null" \/ attr.n > UNBOUNDED_CONTEXT THEN max_tokens
                     ELSE attr.n
        special_tokens == IF tokenizer.special_tokens.tag = "absent" THEN 0
                          ELSE tokenizer.special_tokens.n
        available == Max(1, model_max - special_tokens)
    IN  Min(max_tokens, available)

\* chunk_tokens[i:i + step] for i in range(0, len(chunk_tokens), step), step > 0
RECURSIVE Windows(_, _)
Windows(tokens, step) ==
    IF tokens = <<>> THEN <<>>
    ELSE <<SubSeq(tokens, 1, Min(step, Len(tokens)))>>
             \o Windows(SubSeq(tokens, step + 1, Len(tokens)), step)

\* decode(chunk_ids).strip(), with a period appended when it does not end in one
SubChunk(chunk_ids) ==
    LET chunk_text == Strip(Decode(chunk_ids)) IN
    IF chunk_text # <<>> /\ chunk_text[Len(chunk_text)] # "." THEN chunk_text \o <<".">>
    ELSE chunk_text

\* the sentence kept as one chunk
_split_long_sentence_whole(sentence_text, tokenizer, max_chunk_tokens) ==
    [exc |-> "none", chunks |-> <<sentence_text>>]

\* _split_long_sentence(sentence_text, tokenizer, max_chunk_tokens): range() with
\* a step of 0 raises ValueError, with a negative step it is empty
_split_long_sentence(sentence_text, tokenizer, max_chunk_tokens) ==
    LET chunk_tokens == Encode(sentence_text)
        windows == Windows(chunk_tokens, max_chunk_tokens)
    IN  IF max_chunk_tokens = 0 THEN [exc |-> "ValueError", chunks |-> <<>>]
        ELSE IF max_chunk_tokens < 0 THEN [exc |-> "none", chunks |-> <<>>]
        ELSE [exc |-> "none",
              chunks |-> SelectSeq([i \in 1..Len(windows) |-> SubChunk(windows[i])],
                                   NonEmpty)]

\* [s.strip() for s in text.split('.') if s.strip()]
Sentences(text) ==
    LET parts == SplitOn(text, ".") IN
    SelectSeq([i \in 1..Len(parts) |-> Strip(parts[i])], NonEmpty)

\* " ".join(current_sentences).strip()
Flush(current_sentences) == Strip(Join(current_sentences, <<"sp">>))

\* the loop of _chunk_text over the sentences still to come.  groups is not in
\* the source: beside every chunk it records the sentences the chunk was joined
\* from, or <<>> for a piece of a split sentence.
RECURSIVE ChunkLoop(_, _, _, _, _, _, _)
ChunkLoop(sentences, chunks, current_sentences, current_token_count, tokenizer, max_chunk_tokens, groups) ==
    IF sentences = <<>>
    THEN [exc |-> "none",
          chunks |-> IF current_sentences # <<>>
                     THEN Append(chunks, Flush(current_sentences)) ELSE chunks,
          groups |-> IF current_sentences # <<>>
                     THEN Append(groups, current_sentences) ELSE groups]
    ELSE LET sentence_text == Head(sentences) \o <<".">>
             sentence_token_count == Len(Encode(sentence_text))
         IN  IF sentence_token_count > max_chunk_tokens
             THEN LET flushed == IF current_sentences # <<>>
                                 THEN Append(chunks, Flush(current_sentences)) ELSE chunks
                      flushed_groups == IF current_sentences # <<>>
                                        THEN Append(groups, current_sentences) ELSE groups
                      sub == _split_long_sentence(sentence_text, tokenizer, max_chunk_tokens)
                  IN  IF sub.exc # "none"
                      THEN [exc |-> sub.exc, chunks |-> <<>>, groups |-> <<>>]
                      ELSE ChunkLoop(Tail(sentences), flushed \o sub.chunks, <<>>, 0,
                                     tokenizer, max_chunk_tokens,
                                     flushed_groups \o [i \in 1..Len(sub.chunks) |-> <<>>])
             ELSE IF current_token_count + sentence_token_count <= max_chunk_tokens
             THEN ChunkLoop(Tail(sentences), chunks,
                            Append(current_sentences, sentence_text),
                            current_token_count + sentence_token_count, tokenizer,
                            max_chunk_tokens, groups)
             ELSE ChunkLoop(Tail(sentences), Append(chunks, Flush(current_sentences)),
                            <<sentence_text>>, sentence_token_count, tokenizer,
                            max_chunk_tokens, Append(groups, current_sentences))

\* _chunk_text(text, max_tokens)
_chunk_text(text, max_tokens) ==
    IF text = <<>> THEN [exc |-> "none", chunks |-> <<>>, groups |-> <<>>]
    ELSE ChunkLoop(Sentences(text), <<>>, <<>>, 0, FallbackTokenizer,
                   _get_max_chunk_tokens(FallbackTokenizer, max_tokens), <<>>)

\* chunks = _chunk_text(text, max_tokens=510)
CHUNK_MAX_TOKENS == 510

\* the last chunk, not the first, handed to the service
SentimentArgument_Last(text) ==
    IF text = <<>> THEN <<>>
    ELSE LET chunks == _chunk_text(text, CHUNK_MAX_TOKENS).chunks IN
         IF chunks = <<>> THEN <<>> ELSE chunks[Len(chunks)]

\* the argument analyze_sentiment hands to service.analyze
SentimentArgument(text) ==
    IF text = <<>> THEN <<>>
    ELSE LET chunks == _chunk_text(text, CHUNK_MAX_TOKENS).chunks IN
         IF chunks = <<>> THEN <<>> ELSE chunks[1]

\* n words "a" with single spaces between them
Words(n) == [i \in 1..(2 * n - 1) |-> IF i % 2 = 1 THEN "a" ELSE "sp"]
\* texts that do not fit the 510-token budget of analyze_sentiment: one
\* sentence of 511 words, and a sentence of 510 words followed by a second one
LongTexts == {Words(CHUNK_MAX_TOKENS + 1), Words(CHUNK_MAX_TOKENS) \o <<".", "sp", "b">>}
SentimentTexts == ChunkTexts \cup LongTexts

\* the backend answers used for analyze_sentiment: a failure, an empty body and
\* a JSON answer
ServiceResponses ==
    {[net |-> "timeout", body |-> EmptyBody], [net |-> "json", body |-> EmptyBody],
     [net |-> "json",
      body |-> JsonObjectBody(ChoicesList(<<ChoiceObject(Str(<<"{", "mNeg", "}">>))>>),
                              UsageAbsent)]}

InitChunk == InitTok

\* tokenizers of every shape line 87-92 tell apart: the context attribute missing,
\* None, small, at and above the 100000 mark; the overhead method missing or
\* answering 0, 1, 2
ContextSamples ==
    {Absent, Null, Num(1), Num(2), Num(3), Num(512), Num(UNBOUNDED_CONTEXT),
     Num(UNBOUNDED_CONTEXT + 1)}
OverheadSamples == {Absent, Num(0), Num(1), Num(2)}
Tokenizer(context, overhead) == [model_max_length |-> context, special_tokens |-> overhead]
BudgetSamples == (1..MaxBudget) \cup {CHUNK_MAX_TOKENS}

\* _get_max_chunk_tokens(tokenizer, max_tokens)
MaxChunkTokensCall(tokenizer, max_tokens) ==
    /\ call' = [op |-> "_get_max_chunk_tokens", tokenizer |-> tokenizer,
                max_tokens |-> max_tokens]
    /\ ret' = Returned(_get_max_chunk_tokens(tokenizer, max_tokens), 0)
    /\ UNCHANGED <<tokVars, globVars, envVars>>

\* _chunk_text(text, max_tokens)
ChunkTextCall(text, max_tokens) ==
    LET c == _chunk_text(text, max_tokens) IN
    /\ call' = [op |-> "_chunk_text", text |-> text, max_tokens |-> max_tokens]
    /\ ret' = IF c.exc # "none" THEN Raised(c.exc, 0)
              ELSE [raised |-> FALSE, exc |-> "none", result |-> c.chunks, requests |-> 0,
                    groups |-> c.groups]
    /\ UNCHANGED <<tokVars, globVars, envVars>>

\* analyze_sentiment(text): one service.analyze call on every path, served by
\* SentimentService
AnalyzeSentiment(text, resp, latency_ms) ==
    LET arg == SentimentArgument(text)
        r == PhiAnalyzeResult(arg, resp, latency_ms)
    IN  /\ call' = [op |-> "analyze_sentiment", text |-> text, resp |-> resp,
                    latency |-> latency_ms]
        /\ ret' = [raised |-> r.raised, exc |-> r.exc, result |-> r.result,
                   requests |-> r.requests, analyze_calls |-> <<arg>>]
        /\ IF ~IsEmptyInput(arg) /\ ~r.raised
           THEN CacheAfterCount(PHI_MODEL_NAME)
           ELSE UNCHANGED <<tokenizers, built, nextObj>>
        /\ UNCHANGED <<tpc, tmodel, tobj, tcalls, returned, globVars, envVars>>

NextChunk ==
    \/ /\ call = NoCall
       /\ \E text \in ChunkTexts, max_tokens \in MaxTokensSamples :
             ChunkTextCall(text, max_tokens)
    \/ /\ call = NoCall
       /\ \E text \in SentimentTexts, resp \in ServiceResponses,
             latency_ms \in LatencySamples : AnalyzeSentiment(text, resp, latency_ms)
    \/ /\ call = NoCall
       /\ \E context \in ContextSamples, overhead \in OverheadSamples,
             max_tokens \in BudgetSamples :
             MaxChunkTokensCall(Tokenizer(context, overhead), max_tokens)
    \/ CallEnds

SpecChunk == InitChunk /\ [][NextChunk]_vars

\* the budget of a chunk under the tokenizer in use
EffectiveBudget(max_tokens) ==
    Min(max_tokens, FallbackTokenizer.model_max_length.n - FallbackTokenizer.special_tokens.n)

TokenCount(text) == SplitCount(text)

\* the words of each sentence of a text: the stretches between periods that hold
\* at least one word
SentenceWords(text) ==
    LET parts == SplitOn(text, ".") IN
    SelectSeq([i \in 1..Len(parts) |-> SplitWhitespace(parts[i])], NonEmpty)

\* C16: for every text and every max_tokens >= 1, every chunk of _chunk_text has
\* at most the effective budget of tokens, and a single sentence with more tokens
\* than the budget yields at least two sub-chunks.
C16_ChunkBudgetBound ==
    (call.op = "_chunk_text" /\ call.max_tokens >= 1)
        => /\ ~ret.raised
           /\ \A i \in 1..Len(ret.result) :
                 TokenCount(ret.result[i]) <= EffectiveBudget(call.max_tokens)
           /\ (/\ Len(SentenceWords(call.text)) = 1
               /\ Len(SentenceWords(call.text)[1]) > EffectiveBudget(call.max_tokens))
                  => Len(ret.result) >= 2

\* "a b a." under a budget of 2 tokens: two sub-chunks
C16_Witness ==
    /\ call.op = "_chunk_text"
    /\ call.text = <<"a", "sp", "b", "sp", "a">>
    /\ call.max_tokens = 2
    /\ ret.result = << <<"a", "sp", "b", ".">>, <<"a", ".">> >>

\* the words of a text: split on periods, then on whitespace
RECURSIVE Flatten(_)
Flatten(ss) == IF ss = <<>> THEN <<>> ELSE Head(ss) \o Flatten(Tail(ss))

WordsOf(text) ==
    LET parts == SplitOn(text, ".") IN
    Flatten([i \in 1..Len(parts) |-> SplitWhitespace(parts[i])])

\* C17: for every text and every max_tokens, the words of the chunks of
\* _chunk_text, taken in order, are the words of the text (nothing dropped,
\* duplicated or reordered); empty text yields no chunk.
C17_ChunkingPreservesContent ==
    call.op = "_chunk_text"
        => /\ ~ret.raised
           /\ Flatten([i \in 1..Len(ret.result) |-> WordsOf(ret.result[i])])
                  = WordsOf(call.text)
           /\ call.text = <<>> => ret.result = <<>>

\* C18: for every non-empty text that fits in a single chunk (with or without a
\* period), analyze_sentiment calls the service's analyze exactly once, with the
\* original text.
C18_ShortTextPassedUnchanged ==
    (/\ call.op = "analyze_sentiment"
     /\ WordsOf(call.text) # <<>>
     /\ TokenCount(call.text) <= EffectiveBudget(CHUNK_MAX_TOKENS))
        => ret.analyze_calls = <<call.text>>

----------------------------------------------------------------------------
(* All the operations that call a backend, in one specification. *)

InitServices == InitTok

NextServices ==
    \/ /\ call = NoCall
       /\ \E text \in ArticleTexts, resp \in PhiResponses, latency_ms \in LatencySamples :
             PhiAnalyze(text, resp, latency_ms)
    \/ /\ call = NoCall
       /\ \E text \in ArticleTexts, resp \in GroqSentimentResponses,
             latency_ms \in LatencySamples : GroqAnalyze(text, resp, latency_ms)
    \/ /\ call = NoCall
       /\ \E t \in ArticleTexts, resp \in AnalysisHttpResponses : HttpAnalyzeRhetoric(t, resp)
    \/ /\ call = NoCall
       /\ \E t \in ArticleTexts, r \in ArticleTexts, resp \in AnalysisHttpResponses :
             HttpCompareArticleTexts(t, r, resp)
    \/ /\ call = NoCall
       /\ \E t \in ArticleTexts, resp \in AnalysisGroqResponses : GroqAnalyzeRhetoric(t, resp)
    \/ /\ call = NoCall
       /\ \E t \in ArticleTexts, r \in ArticleTexts, resp \in AnalysisGroqResponses :
             GroqCompareArticleTexts(t, r, resp)
    \/ CallEnds

SpecServices == InitServices /\ [][NextServices]_vars

\* the backend request of the call failed (transport, status, credential)
RequestFailed(c) ==
    IF c.op \in {"phi_sentiment", "http_rhetoric", "http_compare"}
    THEN c.resp.net \in HttpFailures
    ELSE c.resp.kind \in {"no_credential", "api_error", "connection_error"}

\* C19: every invocation of analyze_rhetoric, compare_article_texts,
\* SentimentService.analyze or GroqSentimentService.analyze issues at most one
\* backend request, whether it succeeds or fails, and a failed request yields
\* one degraded result for that call.
C19_NoAutomaticRetries ==
    call.op \in SentimentOps \cup AnalysisOps
        => /\ ret.requests <= 1
           /\ RequestFailed(call) => ~ret.raised

\* C20: for every non-empty input, when the backend call of either sentiment
\* service fails, the raw response is treated as empty text, the result is the
\* Neutral row (Neutral, NEUTRAL, polarity 0.0, score 0.0) with no error field,
\* and latency_ms is the non-negative integer measured around the failed call.
C20_SentimentDegradation ==
    (call.op \in SentimentOps /\ call.text # <<>> /\ RequestFailed(call))
        => /\ ~ret.raised
           /\ DOMAIN ret.result = SentimentFields
           /\ ret.result.raw = RawOf(<<>>, FALSE)
           /\ ret.result.sentiment = "Neutral"
           /\ ret.result.label = "NEUTRAL"
           /\ ret.result.polarity = 0
           /\ ret.result.score = 0
           /\ ret.result.confidence = 0
           /\ ret.result.latency_ms = call.latency
           /\ ret.result.latency_ms >= 0

\* a timed-out request of the completion server, 7 ms on the clock
C20_Witness ==
    /\ call.op = "phi_sentiment"
    /\ call.text = <<"a">>
    /\ call.resp.net = "timeout"
    /\ call.latency = 7
    /\ ret.requests = 1
    /\ ret.result.sentiment = "Neutral"
    /\ ret.result.score = 0
    /\ ret.result.latency_ms = 7

----------------------------------------------------------------------------
(* The process-wide tokenizer provider (tokenizer_utils.py, lines 50-77).   *)
(* One action per step of get_tokenizer_provider, so that threads           *)
(* interleave between any two statements.  gpc[t] is <<function, step>>.    *)
(* Instances are numbered from 1 per class; 0 is None.                      *)

Idle == <<"idle", "">>

InitProvider == InitTok

\* a thread enters get_tokenizer_provider()
GetProviderCall(t) ==
    /\ gpc[t] = Idle
    /\ gcalls[t] < MaxCalls
    /\ gcalls' = [gcalls EXCEPT ![t] = @ + 1]
    /\ gpc' = [gpc EXCEPT ![t] = <<"get_tokenizer_provider", "lock">>]
    /\ UNCHANGED <<_provider, _provider_lock, _sentiment_service, _tokenizer, gobj, gtext>>
    /\ UNCHANGED <<made, got, tokVars, call, ret, envVars>>

\* the same statement when the lock is not waited for
GetProviderAcquire_NoLock(t) ==
    /\ gpc[t] = <<"get_tokenizer_provider", "lock">>
    /\ _provider_lock' = t
    /\ gpc' = [gpc EXCEPT ![t] = <<"get_tokenizer_provider", "check">>]
    /\ UNCHANGED <<_provider, _sentiment_service, _tokenizer, gobj, gtext, gcalls, made, got>>
    /\ UNCHANGED <<tokVars, call, ret, envVars>>

\* line 62: with _provider_lock (entry: blocks while another thread holds it)
GetProviderAcquire(t) ==
    /\ gpc[t] = <<"get_tokenizer_provider", "lock">>
    /\ _provider_lock = 0
    /\ _provider_lock' = t
    /\ gpc' = [gpc EXCEPT ![t] = <<"get_tokenizer_provider", "check">>]
    /\ UNCHANGED <<_provider, _sentiment_service, _tokenizer, gobj, gtext, gcalls, made, got>>
    /\ UNCHANGED <<tokVars, call, ret, envVars>>

\* line 63: if _provider is None
GetProviderCheck(t) ==
    /\ gpc[t] = <<"get_tokenizer_provider", "check">>
    /\ gpc' = [gpc EXCEPT ![t] = <<"get_tokenizer_provider",
                                   IF _provider = 0 THEN "create" ELSE "release">>]
    /\ UNCHANGED <<_provider, _provider_lock, _sentiment_service, _tokenizer, gobj, gtext>>
    /\ UNCHANGED <<gcalls, made, got, tokVars, call, ret, envVars>>

\* line 64, right-hand side: TokenizerProvider()
GetProviderCreate(t) ==
    /\ gpc[t] = <<"get_tokenizer_provider", "create">>
    /\ made' = [made EXCEPT !["TokenizerProvider"] = @ + 1]
    /\ gobj' = [gobj EXCEPT ![t] = made["TokenizerProvider"] + 1]
    /\ gpc' = [gpc EXCEPT ![t] = <<"get_tokenizer_provider", "store">>]
    /\ UNCHANGED <<_provider, _provider_lock, _sentiment_service, _tokenizer, gtext, gcalls>>
    /\ UNCHANGED <<got, tokVars, call, ret, envVars>>

\* line 64, assignment: _provider = <the new instance>
GetProviderStore(t) ==
    /\ gpc[t] = <<"get_tokenizer_provider", "store">>
    /\ _provider' = gobj[t]
    /\ gpc' = [gpc EXCEPT ![t] = <<"get_tokenizer_provider", "release">>]
    /\ UNCHANGED <<_provider_lock, _sentiment_service, _tokenizer, gobj, gtext, gcalls>>
    /\ UNCHANGED <<made, got, tokVars, call, ret, envVars>>

\* line 62: with _provider_lock (exit)
GetProviderRelease(t) ==
    /\ gpc[t] = <<"get_tokenizer_provider", "release">>
    /\ _provider_lock' = 0
    /\ gpc' = [gpc EXCEPT ![t] = <<"get_tokenizer_provider", "return">>]
    /\ UNCHANGED <<_provider, _sentiment_service, _tokenizer, gobj, gtext, gcalls, made, got>>
    /\ UNCHANGED <<tokVars, call, ret, envVars>>

\* line 65: return _provider (the global is read again, outside the lock)
GetProviderReturn(t) ==
    /\ gpc[t] = <<"get_tokenizer_provider", "return">>
    /\ got' = [got EXCEPT !["_provider"] = @ \cup {_provider}]
    /\ gpc' = [gpc EXCEPT ![t] = Idle]
    /\ UNCHANGED <<_provider, _provider_lock, _sentiment_service, _tokenizer, gobj, gtext>>
    /\ UNCHANGED <<gcalls, made, tokVars, call, ret, envVars>>

\* set_tokenizer_provider(None), lines 68-77: one assignment, no lock taken
SetProviderNone(t) ==
    /\ gpc[t] = Idle
    /\ _provider' = 0
    /\ UNCHANGED <<_provider_lock, _sentiment_service, _tokenizer, gpc, gobj, gtext, gcalls>>
    /\ UNCHANGED <<made, got, tokVars, call, ret, envVars>>

NextProvider ==
    \/ \E t \in Threads : GetProviderCall(t)
    \/ \E t \in Threads : GetProviderAcquire(t)
    \/ \E t \in Threads : GetProviderCheck(t)
    \/ \E t \in Threads : GetProviderCreate(t)
    \/ \E t \in Threads : GetProviderStore(t)
    \/ \E t \in Threads : GetProviderRelease(t)
    \/ \E t \in Threads : GetProviderReturn(t)

SpecProvider == InitProvider /\ [][NextProvider]_vars

\* C21: without any set_tokenizer_provider call, under every interleaving of
\* threads calling get_tokenizer_provider, no more than one TokenizerProvider
\* is ever constructed, one has been constructed once a call gets past the
\* lock, and every caller receives that one instance.
C21_ProviderSingleton ==
    /\ made["TokenizerProvider"] <= 1
    /\ got["_provider"] \subseteq {1}
    /\ \A t \in Threads :
           gpc[t] \in {<<"get_tokenizer_provider", "release">>,
                       <<"get_tokenizer_provider", "return">>}
               => made["TokenizerProvider"] = 1 /\ _provider = 1
    /\ got["_provider"] # {} => made["TokenizerProvider"] = 1

\* every thread has called concurrently and returned, one instance was built
C21_Witness ==
    /\ \A t \in Threads : gcalls[t] >= 1 /\ gpc[t] = Idle
    /\ made["TokenizerProvider"] = 1
    /\ got["_provider"] = {1}

InitProviderReset == InitTok

NextProviderReset ==
    \/ \E t \in Threads : GetProviderCall(t)
    \/ \E t \in Threads : GetProviderAcquire(t)
    \/ \E t \in Threads : GetProviderCheck(t)
    \/ \E t \in Threads : GetProviderCreate(t)
    \/ \E t \in Threads : GetProviderStore(t)
    \/ \E t \in Threads : GetProviderRelease(t)
    \/ \E t \in Threads : GetProviderReturn(t)
    \/ \E t \in Threads : SetProviderNone(t)

SpecProviderReset == InitProviderReset /\ [][NextProviderReset]_vars

\* C28: under every interleaving of threads calling get_tokenizer_provider()
\* and set_tokenizer_provider(None), no call of get_tokenizer_provider
\* returns None.
C28_ProviderNeverNone == 0 \notin got["_provider"]

----------------------------------------------------------------------------
(* The lazily built defaults of services.py: _sentiment_service (line 4)   *)
(* and _tokenizer (line 5), as analyze_sentiment reaches them.  One action *)
(* per statement; no lock appears in the source.  _get_sentiment_service   *)
(* is entered from analyze_sentiment (line 159) and from _get_tokenizer    *)
(* (line 75): fn names the caller.                                         *)

ServiceCallers == {"analyze_sentiment", "_get_tokenizer"}
DefaultsTexts == {<<>>, <<"a">>}

InitDefaults == InitTok

\* a thread enters analyze_sentiment(text); line 159 calls _get_sentiment_service
AnalyzeSentimentCall(t, text) ==
    /\ gpc[t] = Idle
    /\ gcalls[t] < MaxCalls
    /\ gcalls' = [gcalls EXCEPT ![t] = @ + 1]
    /\ gtext' = [gtext EXCEPT ![t] = text]
    /\ gpc' = [gpc EXCEPT ![t] = <<"analyze_sentiment", "svc_check">>]
    /\ UNCHANGED <<_provider, _provider_lock, _sentiment_service, _tokenizer, gobj, made, got>>
    /\ UNCHANGED <<tokVars, call, ret, envVars>>

\* line 65: if _sentiment_service is None
SvcCheck(t, fn) ==
    /\ gpc[t] = <<fn, "svc_check">>
    /\ gpc' = [gpc EXCEPT ![t] = <<fn, IF _sentiment_service = 0 THEN "svc_create"
                                                                  ELSE "svc_return">>]
    /\ UNCHANGED <<_provider, _provider_lock, _sentiment_service, _tokenizer, gobj, gtext>>
    /\ UNCHANGED <<gcalls, made, got, tokVars, call, ret, envVars>>

\* line 66, right-hand side: SentimentService()
SvcCreate(t, fn) ==
    /\ gpc[t] = <<fn, "svc_create">>
    /\ made' = [made EXCEPT !["SentimentService"] = @ + 1]
    /\ gobj' = [gobj EXCEPT ![t] = made["SentimentService"] + 1]
    /\ gpc' = [gpc EXCEPT ![t] = <<fn, "svc_store">>]
    /\ UNCHANGED <<_provider, _provider_lock, _sentiment_service, _tokenizer, gtext, gcalls>>
    /\ UNCHANGED <<got, tokVars, call, ret, envVars>>

\* line 66, assignment: _sentiment_service = <the new instance>
SvcStore(t, fn) ==
    /\ gpc[t] = <<fn, "svc_store">>
    /\ _sentiment_service' = gobj[t]
    /\ gpc' = [gpc EXCEPT ![t] = <<fn, "svc_return">>]
    /\ UNCHANGED <<_provider, _provider_lock, _tokenizer, gobj, gtext, gcalls, made, got>>
    /\ UNCHANGED <<tokVars, call, ret, envVars>>

\* line 67: return _sentiment_service.  In analyze_sentiment the value is the
\* service the call will use (line 159), and lines 160 and 165 follow: empty
\* text goes straight to service.analyze(""), any other text to _chunk_text,
\* whose line 117 calls _get_tokenizer.  In _get_tokenizer only .model_name is
\* read from it (line 75).
SvcReturn(t, fn) ==
    /\ gpc[t] = <<fn, "svc_return">>
    /\ got' = IF fn = "analyze_sentiment"
              THEN [got EXCEPT !["_sentiment_service"] = @ \cup {_sentiment_service}]
              ELSE got
    /\ gpc' = [gpc EXCEPT ![t] = IF fn = "_get_tokenizer" THEN <<"_get_tokenizer", "create">>
                                 ELSE IF gtext[t] = <<>> THEN <<"analyze_sentiment", "analyze">>
                                 ELSE <<"_get_tokenizer", "check">>]
    /\ UNCHANGED <<_provider, _provider_lock, _sentiment_service, _tokenizer, gobj, gtext>>
    /\ UNCHANGED <<gcalls, made, tokVars, call, ret, envVars>>

\* line 72: if _tokenizer is None (then line 75: _get_sentiment_service())
TokCheck(t) ==
    /\ gpc[t] = <<"_get_tokenizer", "check">>
    /\ gpc' = [gpc EXCEPT ![t] = <<"_get_tokenizer", IF _tokenizer = 0 THEN "svc_check"
                                                                       ELSE "return">>]
    /\ UNCHANGED <<_provider, _provider_lock, _sentiment_service, _tokenizer, gobj, gtext>>
    /\ UNCHANGED <<gcalls, made, got, tokVars, call, ret, envVars>>

\* lines 76-83, right-hand side: from_pretrained(local_files_only=True) raises
\* for "phi3.5:latest", so create_fallback_tokenizer() builds the instance
TokCreate(t) ==
    /\ gpc[t] = <<"_get_tokenizer", "create">>
    /\ made' = [made EXCEPT !["Tokenizer"] = @ + 1]
    /\ gobj' = [gobj EXCEPT ![t] = made["Tokenizer"] + 1]
    /\ gpc' = [gpc EXCEPT ![t] = <<"_get_tokenizer", "store">>]
    /\ UNCHANGED <<_provider, _provider_lock, _sentiment_service, _tokenizer, gtext, gcalls>>
    /\ UNCHANGED <<got, tokVars, call, ret, envVars>>

\* line 83, assignment: _tokenizer = <the new instance>
TokStore(t) ==
    /\ gpc[t] = <<"_get_tokenizer", "store">>
    /\ _tokenizer' = gobj[t]
    /\ gpc' = [gpc EXCEPT ![t] = <<"_get_tokenizer", "return">>]
    /\ UNCHANGED <<_provider, _provider_lock, _sentiment_service, gobj, gtext, gcalls, made>>
    /\ UNCHANGED <<got, tokVars, call, ret, envVars>>

\* line 84: return _tokenizer; _chunk_text chunks with it
TokReturn(t) ==
    /\ gpc[t] = <<"_get_tokenizer", "return">>
    /\ got' = [got EXCEPT !["_tokenizer"] = @ \cup {_tokenizer}]
    /\ gpc' = [gpc EXCEPT ![t] = <<"analyze_sentiment", "analyze">>]
    /\ UNCHANGED <<_provider, _provider_lock, _sentiment_service, _tokenizer, gobj, gtext>>
    /\ UNCHANGED <<gcalls, made, tokVars, call, ret, envVars>>

\* lines 161, 167, 171, 176: return service.analyze(...)
AnalyzeSentimentReturn(t) ==
    /\ gpc[t] = <<"analyze_sentiment", "analyze">>
    /\ gpc' = [gpc EXCEPT ![t] = Idle]
    /\ UNCHANGED <<_provider, _provider_lock, _sentiment_service, _tokenizer, gobj, gtext>>
    /\ UNCHANGED <<gcalls, made, got, tokVars, call, ret, envVars>>

NextDefaults ==
    \/ \E t \in Threads, text \in DefaultsTexts : AnalyzeSentimentCall(t, text)
    \/ \E t \in Threads, fn \in ServiceCallers : SvcCheck(t, fn)
    \/ \E t \in Threads, fn \in ServiceCallers : SvcCreate(t, fn)
    \/ \E t \in Threads, fn \in ServiceCallers : SvcStore(t, fn)
    \/ \E t \in Threads, fn \in ServiceCallers : SvcReturn(t, fn)
    \/ \E t \in Threads : TokCheck(t)
    \/ \E t \in Threads : TokCreate(t)
    \/ \E t \in Threads : TokStore(t)
    \/ \E t \in Threads : TokReturn(t)
    \/ \E t \in Threads : AnalyzeSentimentReturn(t)

SpecDefaults == InitDefaults /\ [][NextDefaults]_vars

\* C22: under every interleaving of threads calling analyze_sentiment, at most
\* one default sentiment service and at most one chunker tokenizer are
\* constructed, and all callers use the same service and the same tokenizer.
C22_DefaultsSingleton ==
    /\ made["SentimentService"] <= 1
    /\ made["Tokenizer"] <= 1
    /\ Cardinality(got["_sentiment_service"]) <= 1
    /\ Cardinality(got["_tokenizer"]) <= 1

----------------------------------------------------------------------------
(* The credential of the managed backend.  groq_service reads GROQ_API_KEY *)
(* from the environment inside _get_client, once per _chat_completion      *)
(* call; nothing at import time or in a constructor reads it, and no       *)
(* client is kept between calls.                                           *)

\* the client as an earlier failure would leave it if the failure were kept
_get_client_sticky(api_key, resp) ==
    IF api_key /\ ~missed THEN resp ELSE GroqFailure("no_credential")

\* _get_client(): Groq(api_key=os.getenv("GROQ_API_KEY")) cannot be built
\* without a key; with one, the backend's answer resp decides the outcome
_get_client(api_key, resp) ==
    IF api_key THEN resp ELSE GroqFailure("no_credential")

\* what the backend can answer a client that holds a key
KeyedAnalysisResponses == AnalysisGroqResponses \ {GroqFailure("no_credential")}
KeyedSentimentResponses == GroqSentimentResponses \ {GroqFailure("no_credential")}

InitCredential == InitTok

\* the environment gains or loses GROQ_API_KEY between two calls
SetApiKey(present) ==
    /\ call = NoCall
    /\ GROQ_API_KEY' = present
    /\ UNCHANGED <<missed, call, ret, tokVars, globVars>>

\* GroqSentimentService(): the constructor only stores the model name
GroqServiceConstruct ==
    /\ call = NoCall
    /\ call' = [op |-> "groq_construct", key |-> GROQ_API_KEY]
    /\ ret' = Returned([model_name |-> GROQ_SENTIMENT_MODEL], 0)
    /\ UNCHANGED <<tokVars, globVars, envVars>>

\* groq_service.analyze_rhetoric(article_text) under the current environment
EnvGroqAnalyzeRhetoric(article_text, resp) ==
    /\ call' = [op |-> "groq_rhetoric", text |-> article_text, backend |-> resp,
                resp |-> _get_client(GROQ_API_KEY, resp), key |-> GROQ_API_KEY]
    /\ ret' = GroqRhetoricResult(article_text, _get_client(GROQ_API_KEY, resp))
    /\ missed' = (missed \/ (~GROQ_API_KEY /\ _truncate_text(article_text, TRUNCATE_LIMIT) # <<>>))
    /\ UNCHANGED <<GROQ_API_KEY, tokVars, globVars>>

\* groq_service.compare_article_texts(primary_text, reference_text)
EnvGroqCompareArticleTexts(primary_text, reference_text, resp) ==
    /\ call' = [op |-> "groq_compare", text |-> primary_text, reference |-> reference_text,
                backend |-> resp, resp |-> _get_client(GROQ_API_KEY, resp),
                key |-> GROQ_API_KEY]
    /\ ret' = GroqCompareResult(primary_text, reference_text, _get_client(GROQ_API_KEY, resp))
    /\ missed' = (missed \/ (/\ ~GROQ_API_KEY
                             /\ _truncate_text(primary_text, TRUNCATE_LIMIT) # <<>>
                             /\ _truncate_text(reference_text, TRUNCATE_LIMIT) # <<>>))
    /\ UNCHANGED <<GROQ_API_KEY, tokVars, globVars>>

\* GroqSentimentService().analyze(text)
EnvGroqAnalyze(text, resp, latency_ms) ==
    /\ call' = [op |-> "groq_sentiment", text |-> text, backend |-> resp,
                resp |-> _get_client(GROQ_API_KEY, resp), latency |-> latency_ms,
                key |-> GROQ_API_KEY]
    /\ ret' = GroqAnalyzeResult(text, _get_client(GROQ_API_KEY, resp), latency_ms)
    /\ missed' = (missed \/ (~GROQ_API_KEY /\ ~IsEmptyInput(text)))
    /\ UNCHANGED <<GROQ_API_KEY, tokVars, globVars>>

NextCredential ==
    \/ \E present \in BOOLEAN : SetApiKey(present)
    \/ GroqServiceConstruct
    \/ /\ call = NoCall
       /\ \E t \in ArticleTexts, resp \in KeyedAnalysisResponses :
             EnvGroqAnalyzeRhetoric(t, resp)
    \/ /\ call = NoCall
       /\ \E t \in ArticleTexts, r \in ArticleTexts, resp \in KeyedAnalysisResponses :
             EnvGroqCompareArticleTexts(t, r, resp)
    \/ /\ call = NoCall
       /\ \E text \in ArticleTexts, resp \in KeyedSentimentResponses,
             latency_ms \in LatencySamples : EnvGroqAnalyze(text, resp, latency_ms)
    \/ CallEnds

SpecCredential == InitCredential /\ [][NextCredential]_vars

GroqOps == {"groq_rhetoric", "groq_compare", "groq_sentiment"}

\* the call gets as far as _chat_completion, which builds the client
NeedsCredential(c) ==
    IF c.op = "groq_sentiment" THEN c.text # <<>> ELSE InputsUsable(c)

\* what the operation gives for these inputs when the backend answers resp
ResultFor(c, resp) ==
    CASE c.op = "groq_rhetoric" -> GroqRhetoricResult(c.text, resp)
      [] c.op = "groq_compare" -> GroqCompareResult(c.text, c.reference, resp)
      [] OTHER -> GroqAnalyzeResult(c.text, resp, c.latency)

\* C23: constructing the managed sentiment service succeeds whether or not the
\* credential is present; a managed-backend call that needs the absent
\* credential does not raise, sends nothing and returns its degraded result
\* (error populated with the default text, or the Neutral sentiment row); and a
\* call made while the credential is present gives what its own inputs and the
\* backend's answer determine, whatever failed before it.
C23_MissingCredentialScoped ==
    /\ call.op = "groq_construct" => ~ret.raised
    /\ (call.op \in GroqOps /\ ~call.key /\ NeedsCredential(call))
           => /\ ~ret.raised
              /\ ret.requests = 0
              /\ call.op \in AnalysisOps
                     => /\ ret.result.error # None
                        /\ ret.result.text = DefaultText(call.op)
                        /\ ret.result.tokens_used = 0
              /\ call.op = "groq_sentiment"
                     => /\ ret.result.sentiment = "Neutral"
                        /\ ret.result.label = "NEUTRAL"
                        /\ ret.result.score = 0
    /\ (call.op \in GroqOps /\ call.key) => ret = ResultFor(call, call.backend)

\* after a call that failed for want of the credential, the credential is
\* supplied and the next analysis is answered
C23_Witness ==
    /\ missed
    /\ call.op = "groq_rhetoric"
    /\ call.key
    /\ call.text = <<"a">>
    /\ call.backend.content = Str(<<"a">>)
    /\ ret.requests = 1
    /\ ret.result.error = None
    /\ ret.result.text = <<"a">>

----------------------------------------------------------------------------
(* The effective chunk budget. *)

ContextKnown(tokenizer) == tokenizer.model_max_length.tag = "int"
Overhead(tokenizer) ==
    IF tokenizer.special_tokens.tag = "int" THEN tokenizer.special_tokens.n ELSE 0

\* C24: _get_max_chunk_tokens returns min(max_tokens, max context - overhead)
\* when the tokenizer's max context is at most 100,000, and max_tokens itself,
\* with no overhead subtracted, when the max context is above 100,000 or
\* unknown.
C24_EffectiveBudget ==
    call.op = "_get_max_chunk_tokens"
        => LET tokenizer == call.tokenizer
               ctx == tokenizer.model_max_length
           IN  IF ContextKnown(tokenizer) /\ ctx.n <= UNBOUNDED_CONTEXT
               THEN ret.result = Min(call.max_tokens, ctx.n - Overhead(tokenizer))
               ELSE ret.result = call.max_tokens

----------------------------------------------------------------------------
(* Greedy accumulation. *)

\* chunk i of the returned list was joined from whole sentences
WholeSentenceChunk(r, i) == r.groups[i] # <<>>

\* C25: for any two consecutive chunks of _chunk_text that were both built from
\* whole sentences, the token count of the earlier chunk plus the token count
\* of the first sentence of the later chunk is greater than the budget: a
\* chunk of whole sentences is closed before a fitting sentence only when that
\* sentence would take it over the budget.
C25_GreedyAccumulation ==
    (call.op = "_chunk_text" /\ ~ret.raised)
        => \A i \in 1..(Len(ret.result) - 1) :
               (WholeSentenceChunk(ret, i) /\ WholeSentenceChunk(ret, i + 1))
                   => TokenCount(ret.result[i]) + TokenCount(ret.groups[i + 1][1])
                          > EffectiveBudget(call.max_tokens)

\* "a.b.a" under a budget of 2: "a. b." is closed when "a." would make 3
C25_Witness ==
    /\ call.op = "_chunk_text"
    /\ call.text = <<"a", ".", "b", ".", "a">>
    /\ call.max_tokens = 2
    /\ ~ret.raised
    /\ ret.result = <<(<<"a", ".", "sp", "b", ".">>), (<<"a", ".">>)>>
    /\ ret.groups = <<(<<(<<"a", ".">>), (<<"b", ".">>)>>), (<<(<<"a", ".">>)>>)>>

----------------------------------------------------------------------------
(* The token count of a sentiment result. *)

\* C26: for every non-empty input and every backend outcome, the result of
\* SentimentService.analyze carries token_count = count_tokens(text, model),
\* the locally encoded length, which is 0 only for empty text; the result of
\* GroqSentimentService.analyze carries token_count = 0; token_count is never
\* negative.
C26_SentimentTokenCount ==
    (call.op \in SentimentOps /\ call.text # <<>>)
        => /\ ~ret.raised
           /\ ret.result.token_count >= 0
           /\ call.op = "phi_sentiment"
                  => /\ ret.result.token_count = CountTokens(call.text)
                     /\ ret.result.token_count > 0
           /\ call.op = "groq_sentiment" => ret.result.token_count = 0

----------------------------------------------------------------------------
(* Token-id normalisation. *)

\* C27: for every token sequence and every max_tokens >= 0, the result of
\* _normalize_token_ids has length min(len(input), max_tokens); its i-th
\* element is the i-th token itself when that is an integer, and otherwise a
\* positive integer below 10^6 that is the same for equal tokens.
C27_TokenIdNormalisation ==
    call.op = "_normalize_token_ids"
        => LET ids == call.token_ids
               n == Min(Len(ids), call.max_tokens)
           IN  /\ Len(ret.result) = n
               /\ \A i \in 1..n :
                      IF ids[i].tag = "int" THEN ret.result[i] = ids[i].n
                      ELSE /\ ret.result[i] > 0
                           /\ ret.result[i] < HASH_MODULUS
                           /\ \A j \in 1..n : ids[j] = ids[i] => ret.result[j] = ret.result[i]

----------------------------------------------------------------------------
(* What a failed analysis leaves in its result. *)

\* the model name each operation is configured with
ConfiguredModel(op) ==
    CASE op = "http_rhetoric" -> "Qwen2-7B"
      [] op = "http_compare" -> "Mistral-7B"
      [] op = "groq_rhetoric" -> GROQ_RHETORIC_MODEL
      [] OTHER -> GROQ_COMPARISON_MODEL

\* C29: in every result that analyze_rhetoric or compare_article_texts of either
\* variant returns with a non-null error, tokens_used is 0, model is the
\* configured model name, and text and its alias hold the fixed default string.
C29_FailureLeavesDefaults ==
    (call.op \in AnalysisOps /\ ~ret.raised /\ ret.result.error # None)
        => /\ ret.result.tokens_used = 0
           /\ ret.result.model = ConfiguredModel(call.op)
           /\ ret.result.text = DefaultText(call.op)
           /\ Alias(ret.result, call.op) = DefaultText(call.op)

\* the managed backend rejects the request of a rhetoric analysis
C29_Witness ==
    /\ call.op = "groq_rhetoric"
    /\ call.text = <<"a">>
    /\ call.resp = GroqFailure("api_error")
    /\ ~ret.raised
    /\ ret.requests = 1
    /\ ret.result.error = <<"Groq", "rhetoric", "request", "failed:", "APIError">>
    /\ ret.result.text = RHETORIC_DEFAULT
    /\ ret.result.analysis = RHETORIC_DEFAULT
    /\ ret.result.tokens_used = 0

----------------------------------------------------------------------------
(* The one service call of analyze_sentiment. *)

====
